---------------------------- MODULE Spec2Model ----------------------------
(***************************************************************************)
(* RefactFlow: the Java analysis engine of modules/analyze_module.py and   *)
(* the Streamlit handler render_analyze_tab that drives it.                *)
(*                                                                         *)
(* A source text is represented by the facts the code's regular            *)
(* expressions and the javalang parse extract from it (line classes,       *)
(* matched method signatures with their brace-matched bodies, class        *)
(* declarations, import statements, ...).  Numbers that Python holds as    *)
(* floats are held exactly, as pairs <<numerator, denominator>>.           *)
(***************************************************************************)
EXTENDS Integers, Sequences, FiniteSets, TLC

(***************************************************************************)
(* Bounds of the model.                                                    *)
(***************************************************************************)
MaxFiles == 3
MaxRenders == 3

(***************************************************************************)
(* Generic helpers.                                                        *)
(***************************************************************************)
Range(s) == {s[i] : i \in 1..Len(s)}

RECURSIVE Concat(_)
Concat(ss) == IF ss = <<>> THEN <<>> ELSE Head(ss) \o Concat(Tail(ss))

RECURSIVE SumSeq(_)
SumSeq(s) == IF s = <<>> THEN 0 ELSE Head(s) + SumSeq(Tail(s))

Repeat(x, n) == [i \in 1..n |-> x]

MinInt(a, b) == IF a <= b THEN a ELSE b
MaxInt(a, b) == IF a >= b THEN a ELSE b

\* s ends with t / starts with t (str.endswith, str.startswith)
EndsWith(s, t) ==
    /\ Len(t) <= Len(s)
    /\ SubSeq(s, Len(s) - Len(t) + 1, Len(s)) = t
StartsWith(s, t) ==
    /\ Len(t) <= Len(s)
    /\ SubSeq(s, 1, Len(t)) = t

\* sorted(xs) for a sequence of integers (insertion sort)
RECURSIVE InsertSorted(_, _)
InsertSorted(x, s) ==
    IF s = <<>> THEN <<x>>
    ELSE IF x <= Head(s) THEN <<x>> \o s
    ELSE <<Head(s)>> \o InsertSorted(x, Tail(s))
RECURSIVE Sorted(_)
Sorted(s) == IF s = <<>> THEN <<>> ELSE InsertSorted(Head(s), Sorted(Tail(s)))

(***************************************************************************)
(* Exact rationals <<n, d>>, d > 0, for Python's float arithmetic.         *)
(***************************************************************************)
Rat(n, d) == <<n, d>>
RatAdd(p, q) == <<p[1] * q[2] + q[1] * p[2], p[2] * q[2]>>
RatLess(p, q) == p[1] * q[2] < q[1] * p[2]
RatLeq(p, q) == p[1] * q[2] <= q[1] * p[2]
RatEq(p, q) == p[1] * q[2] = q[1] * p[2]
RatIsZero(p) == p[1] = 0
RatSub(p, q) == <<p[1] * q[2] - q[1] * p[2], p[2] * q[2]>>
RatMul(p, q) == <<p[1] * q[1], p[2] * q[2]>>
\* p / q for q > 0
RatDiv(p, q) == <<p[1] * q[2], p[2] * q[1]>>
Whole(n) == <<n, 1>>
One == <<1, 1>>
Half == <<1, 2>>
\* q as it is, without the clamp
Unclamped(q) == q
\* min(1.0, q)
Min1(q) == IF RatLess(One, q) THEN One ELSE q
\* round(q, 2) in hundredths, ties to even as Python's round does
Round2(q) ==
    LET n == 100 * q[1]
        d == q[2]
        fl == n \div d
        r == n - fl * d
    IN IF 2 * r < d THEN fl
       ELSE IF 2 * r > d THEN fl + 1
       ELSE IF fl % 2 = 0 THEN fl ELSE fl + 1


(***************************************************************************)
(* Source texts.  A text is the record of facts that the code reads off    *)
(* it.  The part of the text that the brace scans walk over is held item   *)
(* by item in chars: "{", "}", "nl" (a line break) and any other string    *)
(* for a run of characters without braces and line breaks; lead is the     *)
(* number of complete lines before chars.  comments and blanks count the   *)
(* lines starting with // or /* and the lines empty after strip().         *)
(* parse is what javalang.parse.parse(code) does: "ok", "syntax" (raises   *)
(* JavaSyntaxError, whose str() is empty) or "lexer" (raises LexerError,   *)
(* whose str() is a message).                                              *)
(***************************************************************************)
NoParent == <<>>
NoPackage == <<>>

\* len(s.splitlines()) for a run of items
LineCount(s) ==
    Cardinality({i \in 1..Len(s) : s[i] = "nl"})
      + (IF s # <<>> /\ s[Len(s)] # "nl" THEN 1 ELSE 0)

\* one match of the method signature pattern
\* (public|private|protected)?\s+\w+\s+(\w+)\s*\(([^)]*)\)\s*\{
Method(name, open) ==
    [ name |-> name,
      open |-> open,           \* m.end(): the position in chars of its "{"
      words |-> 0,             \* \w+ tokens between the parentheses
      params |-> 0,            \* parameters declared between the parentheses
      prims |-> 0,             \* parameters "T x" with T a primitive type or String
      span |-> 1,              \* lines of the match extended by [^}]*\} (the
                               \* match begins at the end of the line before
                               \* the signature), 0 when no "}" follows
      objects |-> 0,           \* distinct x in matches of (\w+)\.(\w+) in mbody
      chains |-> 0,            \* matches of \.[a-zA-Z_][a-zA-Z0-9_]*\( in mbody
      switch_on |-> <<>>,      \* variables of switch\s*\((\w+)\) in mbody
      delegates |-> FALSE,     \* first code line matches (return\s+)?\w+\.\w+\(.*\);
      flag_checks |-> <<>>,    \* per boolean set exactly once: its if(flag) checks
      decisions |-> 0,         \* in the body the complexity scan finds:
                               \* if|for|while|case|catch|throw, && and ||, ?:
      cognitive |-> 0,         \* the eleven keywords of the cognitive count
      nest |-> 0,              \* maximum brace depth
      switches |-> 0,          \* switch\s*\(
      control |-> 0,           \* if|for|while|do|switch|case|catch|throw
      conditions |-> 0,        \* if|else if|while|for|case
      speculative |-> FALSE,   \* hook|extension|future in the name, named once
      named_once |-> FALSE ]   \* \b<name>\b matches once in the text

\* one ClassDeclaration node of the parse tree, in the order of list(tree)
Class(name, parent) ==
    [ name |-> name,
      parent |-> parent,       \* node.extends, NoParent when there is none
      n_methods |-> 0,         \* len(node.methods)
      n_fields |-> 0,          \* len(node.fields)
      n_implements |-> 0,      \* len(node.implements)
      null_body |-> FALSE,     \* some method has body None (abstract, native)
      n_prefixes |-> 0 ]       \* distinct m.name.split('_')[0]

\* one match of class\s+(\w+)[^{]*\{ in the text
ClassMatch(name, parent) ==
    [ name |-> name,
      parent |-> parent,       \* (?:\s+extends\s+([\w<>]+))?, NoParent for None
      is_abstract |-> FALSE,   \* (abstract\s+)?
      impls |-> <<>>,          \* the names of (?:\s+implements\s+([\w,\s<>]+))?
      header_ifaces |-> 0,     \* names after "implements" in the 100 characters
                               \* before the match
      span |-> 1,              \* lines of the match of class\s+\w+[^{]*\{[^}]*\},
                               \* 0 when no "}" follows
      body_methods |-> 0,      \* method signatures matched inside the class body
      body_fields |-> 0,       \* field declarations matched inside the class body
      overrides |-> 0,         \* @Override inside the class body
      open |-> 0 ]             \* the position in chars of its "{", 0 when the
                               \* "{" is in the lead lines

\* one field declaration "public <type> <name>;" of a class body;
\* word_type: <type> is a single \w+ token (int, String), not int[] or List<T>,
\* so that public\s+\w+\s+(\w+)\s*; matches the declaration
\* one match of the field pattern of the cohesion metrics,
\* ...([\w\<\>\[\]]+)\s+(\w+)\s*(=|;): the name captured, the item of chars
\* that is the declaration, and its position in chars (0: in the lead lines).
\* A statement item that is the name of a field mentions that field.
FieldDecl(name, item, at) == [ name |-> name, item |-> item, at |-> at ]

PublicField(name, word_type) == [ name |-> name, word_type |-> word_type ]

ZeroCounts ==
    [ interfaces |-> 0,        \* interface\s+\w+
      fieldlike |-> 0,         \* (public|private|protected)?\s+\w+\s+\w+\s*(=|;)
      accessors |-> 0,         \* (get|set)\w+\s*\(
      implements_kw |-> 0,     \* \bimplements\b
      extends_kw |-> 0,        \* \bextends\b
      public_sigs |-> 0,       \* \bpublic\s+\w+\s+\w+\s*\(
      import_lines |-> 0,      \* ^\s*import\s+[\w\.\*]+;
      new_types |-> 0,         \* distinct T in new\s+([A-Z]\w*)\s*\(
      javadoc_lines |-> 0,     \* lines starting with /**
      slash_lines |-> 0,       \* lines starting with //
      slash_chars |-> 0,       \* their total length
      catches |-> 0,           \* catch\s*\(
      asserts |-> 0,           \* assert\s
      tests |-> 0,             \* @Test
      blocks |-> 0,            \* if|for|while|switch
      repeated_lines |-> 0,    \* lines occurring more than once
      todos |-> 0,             \* TODO|FIXME
      bad_names |-> 0,         \* var|tmp|foo|bar between non-word characters
      ident_count |-> 0,       \* \b\w+\b
      ident_chars |-> 0,       \* their total length
      creds |-> 0,             \* password|passwd|secret|api[_-]?key
      deprecated |-> 0,        \* @Deprecated
      bare_imports |-> 0,      \* import\s+\w+;\s*$
      decl_semis |-> 0,        \* (public|private|protected)?\s+\w+\s+\w+\s*;
      public_members |-> 0,    \* public\s+\w+\s+\w+;
      casts |-> 0,             \* \([A-Za-z0-9_]+\)\s*\w+
      packages |-> 0,          \* package\s+[\w\.]+;
      class_words |-> 0,       \* class\s+\w+
      case_labels |-> 0 ]      \* case\s+[^:]+: inside the method bodies

\* what the walk over the parse tree counts (when the parse is "ok")
ZeroAst ==
    [ types |-> 0,             \* nodes with 'fields' and 'methods': type declarations
      interfaces |-> 0,        \* InterfaceDeclaration nodes
      type_methods |-> 0,      \* sum of len(node.methods) over the type declarations
      type_fields |-> 0,       \* sum of len(node.fields) over the type declarations
      packages |-> 0,          \* PackageDeclaration nodes
      methods |-> 0,           \* MethodDeclaration nodes
      max_body |-> 0,          \* largest len(node.body or []) of a MethodDeclaration
      accessors |-> 0,         \* MethodDeclaration nodes named get* or set*
      stmt |-> 0,              \* body statements with a 'statement' attribute
      expr |-> 0,              \* ... with an 'expression' attribute
      block |-> 0,             \* ... with a 'block' attribute
      cond |-> 0,              \* ... with a 'condition' attribute
      switches |-> 0,          \* SwitchStatement nodes
      flow |-> 0,              \* If/For/While/Do statement nodes
      escaped |-> 0 ]          \* matches of \\b(if|for|...)\\b: a backslash, "b",
                               \* a keyword, a backslash, "b"

\* the rules whose finding is a function of the text alone and whose
\* confidence is a constant: how many findings each makes in the text
ZeroFindings ==
    [ spec_abstract |-> 0,     \* abstract class / interface / abstract method named once
      constant_iface |-> 0,
      mutable_static |-> 0,
      ambiguous |-> 0,
      layering |-> 0,
      magic_number |-> 0,
      magic_string |-> 0,
      commented_code |-> 0,
      empty_catch |-> 0,
      swallow |-> 0,
      logger |-> 0,
      iface_methods |-> <<>> ] \* per interface: matches of \w+\s+\w+\s*\([^)]*\)\s*;
                               \* in its scanned body

EmptyText ==
    [ lead |-> 0, chars |-> <<>>, comments |-> 0, blanks |-> 0,
      lead_opens |-> 0,        \* the "{" of the lead lines (they hold no "}")
      parse |-> "ok",
      pkg |-> NoPackage,       \* package\s+([\w\.]+);
      imports |-> {},          \* names captured by import\s+([\w\.]+);
      mentions |-> {},         \* file base names b with a match of \b<b>\b
      abstraction |-> FALSE,   \* (abstract\s+class|interface)\s+\w+ matches
      intimate |-> {},         \* class names X with more than 5 matches of X\\.
      classes |-> <<>>,        \* ClassDeclaration nodes (when the parse is "ok")
      ast |-> ZeroAst,
      class_matches |-> <<>>,
      methods |-> <<>>,
      pubfields |-> <<>>,
      field_decls |-> <<>>,    \* the matches of the field pattern whose name a
                               \* statement of the text mentions (see FieldDecl)
      counts |-> ZeroCounts,
      findings |-> ZeroFindings ]

\* len(code.splitlines())
Loc(t) == t.lead + LineCount(t.chars)
\* code.strip() == "" (and so is "not code")
IsBlank(t) == Loc(t) = t.blanks

(***************************************************************************)
(* File names.  A name is the sequence of its characters, the extension    *)
(* held as one element.                                                    *)
(***************************************************************************)
Letters == <<"A", "B", "C", "D", "E">>
NameOf(i) == <<Letters[i], ".java">>
\* os.path.splitext(os.path.basename(name))[0]
RECURSIVE AfterLastSlash(_)
AfterLastSlash(s) ==
    IF \E i \in 1..Len(s) : s[i] = "/"
    THEN AfterLastSlash(Tail(s))
    ELSE s
BaseName(name) ==
    LET b == AfterLastSlash(name)
    IN IF b # <<>> /\ b[Len(b)] \in {".java", ".py"} THEN SubSeq(b, 1, Len(b) - 1) ELSE b
\* dep.replace('.', '/')
DotsToSlashes(dep) == [i \in 1..Len(dep) |-> IF dep[i] = "." THEN "/" ELSE dep[i]]


(***************************************************************************)
(* SmellReport and the project statistics.                                 *)
(***************************************************************************)
SmellReport(file_name, location, category, smell_type, confidence, reason) ==
    [ file_name |-> file_name, location |-> location, category |-> category,
      smell_type |-> smell_type, confidence |-> confidence, reason |-> reason ]

\* SmellReport.as_dict: the confidence rounded to two places (in hundredths)
as_dict(r) ==
    [ File |-> r.file_name, Location |-> r.location, Category |-> r.category,
      Type |-> r.smell_type, Confidence |-> Round2(r.confidence),
      Reason |-> r.reason ]

\* project_stats is None
NoStats == [ present |-> FALSE, class_median |-> Whole(0), method_median |-> Whole(0) ]
Stats(cm, mm) == [ present |-> TRUE, class_median |-> cm, method_median |-> mm ]

\* float(np.median(xs)) if xs else 0
Median(xs) ==
    LET srt == Sorted(xs)
        n == Len(xs)
    IN IF n = 0 THEN Whole(0)
       ELSE IF n % 2 = 1 THEN Whole(srt[(n + 1) \div 2])
       ELSE <<srt[n \div 2] + srt[n \div 2 + 1], 2>>

\* the file_contents dict: one entry per file, in upload order; a file
\* without a "content" key has the empty text
\* a file_contents map built for the first file only: the entries of the
\* other files are there, their texts are not
FirstFileContents(files) ==
    [i \in 1..Len(files) |->
        [ name |-> files[i].name,
          code |-> IF i = 1 /\ files[i].has_content THEN files[i].content ELSE EmptyText ]]
FileContents(files) ==
    [i \in 1..Len(files) |->
        [ name |-> files[i].name,
          code |-> IF files[i].has_content THEN files[i].content ELSE EmptyText ]]
AllFiles(files) == [i \in 1..Len(files) |-> files[i].name]
\* file_contents[fname]
CodeOf(file_contents, fname) ==
    (CHOOSE e \in Range(file_contents) : e.name = fname).code

\* the sizes one file adds to class_sizes and to method_sizes
ClassSizes(t) ==
    IF t.parse = "ok"
    THEN Repeat(Loc(t), Len(t.classes))
    ELSE LET spans == [k \in 1..Len(t.class_matches) |-> t.class_matches[k].span]
         IN SelectSeq(spans, LAMBDA n : n > 0)
MethodSizes(t) ==
    IF t.parse = "ok"
    THEN Repeat(Loc(t), t.ast.methods)
    ELSE LET spans == [k \in 1..Len(t.methods) |-> t.methods[k].span]
         IN SelectSeq(spans, LAMBDA n : n > 0)

compute_project_stats(all_files, file_contents) ==
    LET class_sizes ==
            Concat([i \in 1..Len(all_files) |-> ClassSizes(CodeOf(file_contents, all_files[i]))])
        method_sizes ==
            Concat([i \in 1..Len(all_files) |-> MethodSizes(CodeOf(file_contents, all_files[i]))])
    IN Stats(Median(class_sizes), Median(method_sizes))


(***************************************************************************)
(* ClassSmellAgent.detect.  The walk over the ClassDeclaration nodes keeps *)
(* the locals of the function: reports, class_names, parent_map, and       *)
(* methods / fields, which are assigned only for a class with an extends   *)
(* clause and keep their value (or stay unbound) for the classes after it. *)
(* raised: an exception left the try block (TypeError on project_stats     *)
(* None or on a method body None, UnboundLocalError, ZeroDivisionError).   *)
(***************************************************************************)
ClassCategory == "Class-Level Code Smells"

\* s.lower() for the letters names are made of
LowerOf(c) ==
    CASE c = "A" -> "a" [] c = "B" -> "b" [] c = "C" -> "c" [] c = "D" -> "d"
      [] c = "E" -> "e" [] c = "P" -> "p" [] c = "Q" -> "q" [] OTHER -> c
Lower(name) == [k \in 1..Len(name) |-> LowerOf(name[k])]
\* s[:n]
Prefix(s, n) == SubSeq(s, 1, MinInt(n, Len(s)))

\* getattr(field.declarators[0], 'name', '?') of the k-th field of a class
FieldName(cname, k) == cname \o <<".f", ToString(k)>>

ClassWalkInit ==
    [ reports |-> <<>>, class_names |-> <<>>, parent_map |-> <<>>,
      bound |-> FALSE, owner |-> <<>>, n_methods |-> 0, n_fields |-> 0,
      null_body |-> FALSE, raised |-> FALSE ]

\* the body of the first loop for one ClassDeclaration node
ClassNode(st, node, code, file_name, project_stats) ==
    LET cname == node.name
        ext == node.parent # NoParent
        bound == st.bound \/ ext
        owner == IF ext THEN cname ELSE st.owner
        nm == IF ext THEN node.n_methods ELSE st.n_methods
        nf == IF ext THEN node.n_fields ELSE st.n_fields
        nb == IF ext THEN node.null_body ELSE st.null_body
        names == IF cname \in Range(st.class_names) THEN st.class_names
                 ELSE Append(st.class_names, cname)
        pmap == IF ~ext THEN st.parent_map
                ELSE IF \E k \in 1..Len(st.parent_map) : st.parent_map[k][1] = cname
                THEN [k \in 1..Len(st.parent_map) |->
                         IF st.parent_map[k][1] = cname THEN <<cname, node.parent>>
                         ELSE st.parent_map[k]]
                ELSE Append(st.parent_map, <<cname, node.parent>>)
        loc == Whole(Loc(code))
        cm == project_stats.class_median
        refused ==
            IF ext /\ nm < 2 /\ nf < 2
            THEN <<SmellReport(file_name, cname, ClassCategory, "Refused Bequest",
                               <<7, 10>>, cname \o <<"extends">> \o node.parent)>>
            ELSE <<>>
        intimacy ==
            LET others == SelectSeq(names, LAMBDA o : o # cname /\ o \in code.intimate)
            IN [k \in 1..Len(others) |->
                   SmellReport(file_name, cname, ClassCategory, "Inappropriate Intimacy",
                               <<8, 10>>, cname \o <<"accesses">> \o others[k])]
        r2 == st.reports \o refused \o intimacy
        size_conf == Min1(RatDiv(RatSub(loc, cm), cm))
        god_cond == RatLess(RatMul(cm, Whole(2)), loc)
        god_full == god_cond /\ bound /\ nm > 10 /\ nf > 10
        god_raise == ~project_stats.present \/ (god_cond /\ ~bound)
                       \/ (god_full /\ RatIsZero(cm))
        r3 == r2 \o (IF god_full
                     THEN <<SmellReport(file_name, cname, ClassCategory, "God Class",
                                        size_conf, <<"LOC", "methods", "fields">>)>>
                     ELSE <<>>)
        large_cond == RatLess(RatMul(cm, <<3, 2>>), loc)
        large_raise == large_cond /\ RatIsZero(cm)
        r4 == r3 \o (IF large_cond
                     THEN <<SmellReport(file_name, cname, ClassCategory, "Large Class",
                                        size_conf, <<"LOC">>)>>
                     ELSE <<>>)
        lazy_cond == RatLess(loc, RatMul(cm, <<3, 10>>))
        lazy_raise == lazy_cond /\ ~bound
        r5 == r4 \o (IF lazy_cond /\ nm < 2
                     THEN <<SmellReport(file_name, cname, ClassCategory, "Lazy Class",
                                        <<9, 10>>, <<"LOC", "methods">>)>>
                     ELSE <<>>)
        data_raise == ~bound
        r6 == r5 \o (IF nf > 3 /\ nm <= 2
                     THEN <<SmellReport(file_name, cname, ClassCategory, "Data Class",
                                        <<8, 10>>, <<"fields", "methods">>)>>
                     ELSE <<>>)
        temp_raise == nf > 0 /\ nb
        r7 == r6 \o [k \in 1..nf |->
                       SmellReport(file_name, FieldName(owner, k), ClassCategory,
                                   "Temporary Field", <<7, 10>>, FieldName(owner, k))]
        ni == node.n_implements
        r8 == r7 \o (IF ni > 3
                     THEN <<SmellReport(file_name, cname, ClassCategory, "Swiss Army Knife",
                                        Min1(RatAdd(<<ni - 3, 3>>, Half)), <<"interfaces">>)>>
                     ELSE <<>>)
        next == [ st EXCEPT !.class_names = names, !.parent_map = pmap,
                            !.bound = bound, !.owner = owner, !.n_methods = nm,
                            !.n_fields = nf, !.null_body = nb ]
        Stop(r) == [ next EXCEPT !.reports = r, !.raised = TRUE ]
    IN IF st.raised THEN st
       ELSE IF god_raise THEN Stop(r2)
       ELSE IF large_raise THEN Stop(r3)
       ELSE IF lazy_raise THEN Stop(r4)
       ELSE IF data_raise THEN Stop(r5)
       ELSE IF temp_raise THEN Stop(r6)
       ELSE [ next EXCEPT !.reports = r8 ]

RECURSIVE ClassWalk(_, _, _, _, _)
ClassWalk(st, nodes, code, file_name, project_stats) ==
    IF nodes = <<>> THEN st
    ELSE ClassWalk(ClassNode(st, Head(nodes), code, file_name, project_stats),
                   Tail(nodes), code, file_name, project_stats)

\* the second loop: Divergent Change
DivergentChange(code, file_name) ==
    LET hits == SelectSeq(code.classes, LAMBDA c : c.n_prefixes > 5)
    IN [k \in 1..Len(hits) |->
           SmellReport(file_name, hits[k].name, ClassCategory, "Divergent Change",
                       <<7, 10>>, <<"prefixes">>)]

\* Parallel Inheritance Hierarchies: the reports one other file contributes
ParallelOfFile(entry, parent_map) ==
    IF entry.code.parse # "ok" THEN <<>>
    ELSE LET subs == SelectSeq(entry.code.classes, LAMBDA c : c.parent # NoParent)
             OfNode(node2) ==
                 LET hits == SelectSeq(parent_map, LAMBDA e :
                                 /\ node2.parent # e[2]
                                 /\ StartsWith(Lower(node2.parent), Prefix(Lower(e[2]), 3)))
                 IN [k \in 1..Len(hits) |->
                        SmellReport(entry.name, node2.name, ClassCategory,
                                    "Parallel Inheritance Hierarchies", <<7, 10>>,
                                    node2.name \o <<"extends">> \o node2.parent
                                      \o <<"similar to">> \o hits[k][2])]
         IN Concat([k \in 1..Len(subs) |-> OfNode(subs[k])])

ParallelInheritance(file_name, parent_map, all_files, file_contents) ==
    IF all_files = <<>> \/ file_contents = <<>> THEN <<>>
    ELSE LET others == SelectSeq(file_contents, LAMBDA e : e.name # file_name)
         IN Concat([k \in 1..Len(others) |-> ParallelOfFile(others[k], parent_map)])

\* the except branch: Swiss Army Knife from the text before each class match
ClassFallback(code, file_name) ==
    LET hits == SelectSeq(code.class_matches, LAMBDA c : c.header_ifaces > 3)
    IN [k \in 1..Len(hits) |->
           SmellReport(file_name, hits[k].name, ClassCategory, "Swiss Army Knife",
                       Min1(RatAdd(<<hits[k].header_ifaces - 3, 3>>, Half)),
                       <<"interfaces">>)]

\* all_files / file_contents None are the empty sequence here
ClassSmellAgent_detect(code, file_name, project_stats, all_files, file_contents) ==
    IF code.parse # "ok" THEN ClassFallback(code, file_name)
    ELSE LET st == ClassWalk(ClassWalkInit, code.classes, code, file_name, project_stats)
         IN IF st.raised THEN st.reports \o ClassFallback(code, file_name)
            ELSE st.reports \o DivergentChange(code, file_name)
                   \o ParallelInheritance(file_name, st.parent_map, all_files, file_contents)


(***************************************************************************)
(* MethodSmellAgent.detect.  _method_hashes is an attribute of the class:  *)
(* it is created on first use and lives as long as the process.  It is     *)
(* held as a set of pairs <<body, name>>; md5 is taken to be injective.    *)
(***************************************************************************)
MethodCategory == "Method-Level Code Smells"

\* the while loop of the brace scan, from brace to brace: the characters in
\* between leave brace_count as it is.  braces holds the positions of the
\* braces still to come; the result is the number of characters consumed.
RECURSIVE BraceWalk(_, _, _, _)
BraceWalk(code, braces, j, brace_count) ==
    IF j > Len(braces) THEN Len(code)
    ELSE LET count == IF code[braces[j]] = "{" THEN brace_count + 1 ELSE brace_count - 1
         IN IF count > 0 THEN BraceWalk(code, braces, j + 1, count) ELSE braces[j]

BraceScan(code, i, brace_count) ==
    IF i < Len(code) /\ brace_count > 0
    THEN BraceWalk(code,
                   SelectSeq([k \in 1..Len(code) |-> k],
                             LAMBDA k : k > i /\ code[k] \in {"{", "}"}),
                   1, brace_count)
    ELSE i

\* start = m.end() - 1; brace_count = 1; i = start; ...; mbody = code[start:i-1]
MethodBody(code, m) ==
    LET start == m.open - 1
        i == BraceScan(code.chars, start, 1)
    IN SubSeq(code.chars, start + 1, i - 1)

\* the lines of mbody that are not blank
CodeLineCount(mbody) ==
    Cardinality({k \in 1..Len(mbody) :
                    mbody[k] # "nl" /\ (k = 1 \/ mbody[k - 1] = "nl")})

\* threshold of the Long Method rule
LongMethodThreshold(project_stats) ==
    IF project_stats.present /\ ~RatIsZero(project_stats.method_median)
    THEN RatMul(project_stats.method_median, <<3, 2>>)
    ELSE Whole(50)

HashKnown(hashes, mbody) == \E e \in hashes : e[1] = mbody
HashOwner(hashes, mbody) == (CHOOSE e \in hashes : e[1] = mbody)[2]

\* min(1.0, (n - k)/d + 0.5)
Excess(n, k, d) == Min1(RatAdd(<<n - k, d>>, Half))

\* the body of the loop over the signature matches, for one match
MethodMatch(acc, m, code, file_name, project_stats) ==
    LET mname == m.name
        mbody == MethodBody(code, m)
        envy == IF m.objects > 3
                THEN <<SmellReport(file_name, mname, MethodCategory, "Feature Envy",
                                   Excess(m.objects, 3, 3), <<"objects">>)>>
                ELSE <<>>
        loc == Whole(LineCount(mbody))
        threshold == LongMethodThreshold(project_stats)
        long == IF RatLess(threshold, loc)
                THEN <<SmellReport(file_name, mname, MethodCategory, "Long Method",
                                   Min1(RatAdd(RatDiv(RatSub(loc, threshold), threshold), Half)),
                                   <<"LOC", "threshold">>)>>
                ELSE <<>>
        params == IF m.words > 5
                  THEN <<SmellReport(file_name, mname, MethodCategory, "Long Parameter List",
                                     Excess(m.words, 5, 5), <<"parameters">>)>>
                  ELSE <<>>
        known == HashKnown(acc.hashes, mbody)
        dup == IF known
               THEN <<SmellReport(file_name, mname, MethodCategory, "Duplicated Code",
                                  One, <<"duplicated with">> \o HashOwner(acc.hashes, mbody))>>
               ELSE <<>>
        chains == IF m.chains > 3
                  THEN <<SmellReport(file_name, mname, MethodCategory, "Message Chains",
                                     <<8, 10>>, <<"chain">>)>>
                  ELSE <<>>
        switch == IF m.switch_on # <<>>
                  THEN <<SmellReport(file_name, mname, MethodCategory, "Switch Statement",
                                     <<7, 10>>, <<"switch">>)>>
                  ELSE <<>>
        prims == IF m.prims > 3
                 THEN <<SmellReport(file_name, mname, MethodCategory, "Primitive Obsession",
                                    Excess(m.prims, 3, 3), <<"primitive parameters">>)>>
                 ELSE <<>>
        middle == IF CodeLineCount(mbody) = 1 /\ Head(mbody) \notin {"{", "}"} /\ m.delegates
                  THEN <<SmellReport(file_name, mname, MethodCategory, "Middle Man",
                                     <<9, 10>>, <<"delegates">>)>>
                  ELSE <<>>
    IN [ reports |-> acc.reports \o envy \o long \o params \o dup \o chains
                       \o switch \o prims \o middle,
         hashes |-> IF known THEN acc.hashes ELSE acc.hashes \cup {<<mbody, mname>>} ]

RECURSIVE MethodLoop(_, _, _, _, _)
MethodLoop(acc, ms, code, file_name, project_stats) ==
    IF ms = <<>> THEN acc
    ELSE MethodLoop(MethodMatch(acc, Head(ms), code, file_name, project_stats),
                    Tail(ms), code, file_name, project_stats)

\* Counter(switch_vars).items(): the distinct variables in order of first
\* appearance, each with its count
RECURSIVE Distinct(_)
Distinct(xs) ==
    IF xs = <<>> THEN <<>>
    ELSE LET d == Distinct(SubSeq(xs, 1, Len(xs) - 1))
             x == xs[Len(xs)]
         IN IF x \in Range(d) THEN d ELSE Append(d, x)
CountOf(xs, x) == Cardinality({k \in 1..Len(xs) : xs[k] = x})

RepeatedSwitches(code, file_name) ==
    LET switch_vars == Concat([k \in 1..Len(code.methods) |-> code.methods[k].switch_on])
        hits == SelectSeq(Distinct(switch_vars), LAMBDA v : CountOf(switch_vars, v) > 1)
    IN [k \in 1..Len(hits) |->
           SmellReport(file_name, <<hits[k]>>, MethodCategory, "Repeated Switches",
                       Min1(RatAdd(<<CountOf(switch_vars, hits[k]) - 1, 2>>, Half)),
                       <<"switch on", hits[k]>>)]

SpeculativeGenerality(code, file_name) ==
    [k \in 1..code.findings.spec_abstract |->
        SmellReport(file_name, <<"abstraction", ToString(k)>>, MethodCategory,
                    "Speculative Generality", <<8, 10>>, <<"not used in file">>)]
    \o LET hits == SelectSeq(code.methods, LAMBDA m : m.speculative)
       IN [k \in 1..Len(hits) |->
              SmellReport(file_name, hits[k].name, MethodCategory,
                          "Speculative Generality", <<7, 10>>, <<"speculative name">>)]

ControlFlagOf(m, file_name) ==
    LET hits == SelectSeq(m.flag_checks, LAMBDA c : c > 1)
    IN [k \in 1..Len(hits) |->
           SmellReport(file_name, m.name, MethodCategory, "Control Flag",
                       Min1(RatAdd(<<hits[k] - 1, 2>>, Half)), <<"flag">>)]
ControlFlag(code, file_name) ==
    Concat([k \in 1..Len(code.methods) |-> ControlFlagOf(code.methods[k], file_name)])

\* the result: the reports and the new value of _method_hashes
MethodSmellAgent_detect(hashes, code, file_name, project_stats) ==
    LET acc == MethodLoop([reports |-> <<>>, hashes |-> hashes], code.methods,
                          code, file_name, project_stats)
    IN [ reports |-> acc.reports \o RepeatedSwitches(code, file_name)
                       \o SpeculativeGenerality(code, file_name)
                       \o ControlFlag(code, file_name),
         hashes |-> acc.hashes ]


(***************************************************************************)
(* FieldSmellAgent.detect.                                                 *)
(***************************************************************************)
FieldCategory == "Field-Level Code Smells"

FieldSmellAgent_detect(code, file_name) ==
    LET hits == SelectSeq(code.pubfields, LAMBDA f : f.word_type)
    IN [k \in 1..Len(hits) |->
           SmellReport(file_name, hits[k].name, FieldCategory, "Public Field",
                       One, <<"public">>)]
       \o [k \in 1..code.findings.constant_iface |->
              SmellReport(file_name, <<"interface", ToString(k)>>, FieldCategory,
                          "Constant Interface", One, <<"static final">>)]
       \o [k \in 1..code.findings.mutable_static |->
              SmellReport(file_name, <<"static", ToString(k)>>, FieldCategory,
                          "Mutable Static Field", One, <<"mutable">>)]

(***************************************************************************)
(* ArchitectureSmellAgent.detect.                                          *)
(***************************************************************************)
ArchitectureCategory == "Architecture-Level Code Smells"

\* a set as a sequence, in the one order the process iterates it
RECURSIVE SetToSeq(_)
SetToSeq(S) ==
    IF S = {} THEN <<>>
    ELSE LET x == CHOOSE y \in S : TRUE
         IN <<x>> \o SetToSeq(S \ {x})

\* import_graph: per entry of file_contents, the set of imported names
ImportGraph(file_contents) ==
    [k \in 1..Len(file_contents) |->
        [ name |-> file_contents[k].name, deps |-> file_contents[k].code.imports ]]

\* next((f for f in graph if f.endswith(dep.replace('.', '/') + '.java')), None):
\* the position in graph of the first such file, 0 for None
DepFile(graph, dep) ==
    LET target == DotsToSlashes(dep) \o <<".java">>
        hits == {k \in 1..Len(graph) : EndsWith(graph[k].name, target)}
    IN IF hits = {} THEN 0 ELSE CHOOSE k \in hits : \A j \in hits : k <= j

\* the depth of nested has_cycle calls the interpreter allows before it
\* raises RecursionError (sys.getrecursionlimit() frames in CPython), in
\* calls of has_cycle and scaled to the corpora of the model
RecursionLimit == 3

\* has_cycle(graph, start, visited, stack) over positions of graph; the
\* result is the return value with the visited set as the call leaves it.
\* stack holds the start of every call that has not returned, so its size
\* is the depth the call is made at; raised: RecursionError left the call.
RECURSIVE has_cycle(_, _, _, _)
RECURSIVE HasCycleDeps(_, _, _, _)
has_cycle(graph, start, visited, stack) ==
    IF Cardinality(stack) >= RecursionLimit
    THEN [ found |-> FALSE, visited |-> visited, raised |-> TRUE ]
    ELSE HasCycleDeps(graph, SetToSeq(graph[start].deps),
                      visited \cup {start}, stack \cup {start})
HasCycleDeps(graph, deps, visited, stack) ==
    IF deps = <<>> THEN [ found |-> FALSE, visited |-> visited, raised |-> FALSE ]
    ELSE LET dep_file == DepFile(graph, Head(deps))
         IN IF dep_file = 0 THEN HasCycleDeps(graph, Tail(deps), visited, stack)
            ELSE IF dep_file \notin visited
            THEN LET r == has_cycle(graph, dep_file, visited, stack)
                 IN IF r.found \/ r.raised THEN r
                    ELSE HasCycleDeps(graph, Tail(deps), r.visited, stack)
            ELSE IF dep_file \in stack
            THEN [ found |-> TRUE, visited |-> visited, raised |-> FALSE ]
            ELSE HasCycleDeps(graph, Tail(deps), visited, stack)

\* has_cycle(import_graph, file_name); graph.get(start, []) for a file
\* that is not a key of the graph
CycleSearch(file_name, file_contents) ==
    LET graph == ImportGraph(file_contents)
        at == {k \in 1..Len(graph) : graph[k].name = file_name}
    IN IF at = {} THEN [ found |-> FALSE, visited |-> {}, raised |-> FALSE ]
       ELSE has_cycle(graph, CHOOSE k \in at : TRUE, {}, {})
CyclicDependency(file_name, file_contents) == CycleSearch(file_name, file_contents).found
\* the call of has_cycle ends in RecursionError
CycleRaises(file_name, file_contents) == CycleSearch(file_name, file_contents).raised

InPackage(f, package_name) == StartsWith(f, DotsToSlashes(package_name))
\* re.search(rf'import\s+{package_name}[\.;]', c)
ImportsPackage(c, package_name) ==
    \E d \in c.imports : d = package_name \/ StartsWith(d, package_name \o <<".">>)

ArchitectureSmellAgent_detect(code, file_name, all_files, file_contents) ==
    LET package_name == code.pkg
        has_pkg == package_name # NoPackage
        cyclic == IF CyclicDependency(file_name, file_contents)
                  THEN <<SmellReport(file_name, file_name, ArchitectureCategory,
                                     "Cyclic Dependency", One, <<"cycle">>)>>
                  ELSE <<>>
        class_count == Cardinality({k \in 1..Len(file_contents) :
                          /\ file_contents[k].name # file_name
                          /\ InPackage(file_contents[k].name, package_name)})
        god == IF has_pkg /\ class_count > 10
               THEN <<SmellReport(file_name, package_name, ArchitectureCategory,
                                  "God Package", Excess(class_count, 10, 10), <<"classes">>)>>
               ELSE <<>>
        outgoing == UNION {file_contents[k].code.imports : k \in
                             {j \in 1..Len(file_contents) :
                                 InPackage(file_contents[j].name, package_name)}}
        incoming == {k \in 1..Len(file_contents) :
                        /\ ~InPackage(file_contents[k].name, package_name)
                        /\ ImportsPackage(file_contents[k].code, package_name)}
        unstable == IF has_pkg /\ Cardinality(outgoing) > 5 /\ Cardinality(incoming) < 2
                    THEN <<SmellReport(file_name, package_name, ArchitectureCategory,
                                       "Unstable Dependency", <<8, 10>>, <<"dependencies">>)>>
                    ELSE <<>>
        ambiguous == IF Len(code.methods) < 3
                     THEN [k \in 1..code.findings.ambiguous |->
                              SmellReport(file_name, <<"service", ToString(k)>>,
                                          ArchitectureCategory, "Ambiguous Service",
                                          <<7, 10>>, <<"ambiguous name">>)]
                     ELSE <<>>
        violation == IF has_pkg /\ code.findings.layering > 0
                     THEN <<SmellReport(file_name, package_name, ArchitectureCategory,
                                        "Architecture Violation", <<8, 10>>, <<"layering">>)>>
                     ELSE <<>>
    IN cyclic \o god \o unstable \o ambiguous \o violation


(***************************************************************************)
(* MiscSmellAgent.detect and DependencySmellAgent.detect.                  *)
(***************************************************************************)
MiscCategory == "Miscellaneous or General Code Smells"
DependencyCategory == "Package and Dependency Smells"

\* n findings of one line-by-line or match-by-match rule
Findings(n, file_name, category, smell_type, confidence) ==
    [k \in 1..n |->
        SmellReport(file_name, <<"?", ToString(k)>>, category, smell_type,
                    confidence, <<smell_type>>)]

MiscSmellAgent_detect(code, file_name, project_stats) ==
    LET f == code.findings
        dead == SelectSeq(code.methods, LAMBDA m : m.named_once)
    IN Findings(f.magic_number, file_name, MiscCategory, "Magic Number", <<8, 10>>)
       \o Findings(f.magic_string, file_name, MiscCategory, "Magic String", <<7, 10>>)
       \o [k \in 1..Len(dead) |->
              SmellReport(file_name, dead[k].name, MiscCategory, "Dead Code",
                          <<9, 10>>, <<"never called">>)]
       \o Findings(f.commented_code, file_name, MiscCategory, "Commented-Out Code", <<7, 10>>)
       \o (IF RatLess(RatMul(Whole(Loc(code)), <<3, 10>>), Whole(code.comments))
           THEN <<SmellReport(file_name, <<"?">>, MiscCategory, "Too Many Comments",
                              <<8, 10>>, <<"comment lines">>)>>
           ELSE <<>>)
       \o Findings(f.empty_catch, file_name, MiscCategory, "Empty Catch Block", <<9, 10>>)
       \o Findings(f.swallow, file_name, MiscCategory, "Exception Swallowing", <<8, 10>>)
       \o Findings(f.logger, file_name, MiscCategory, "Logger Misuse", <<8, 10>>)

DependencySmellAgent_detect(code, file_name, all_files, file_contents) ==
    LET package_name == code.pkg
        has_pkg == package_name # NoPackage
        fat == SelectSeq(code.findings.iface_methods, LAMBDA n : n > 10)
        in_pkg == {k \in 1..Len(file_contents) :
                      InPackage(file_contents[k].name, package_name)}
        abstractions == Cardinality({k \in in_pkg : file_contents[k].code.abstraction})
        concrete == Cardinality({k \in in_pkg :
                        /\ ~file_contents[k].code.abstraction
                        /\ file_contents[k].code.class_matches # <<>>})
        class_count == Cardinality({k \in in_pkg : file_contents[k].code.class_matches # <<>>})
        incoming == Cardinality({k \in 1..Len(file_contents) :
                        /\ file_contents[k].name # file_name
                        /\ ImportsPackage(file_contents[k].code, package_name)})
    IN [k \in 1..Len(fat) |->
           SmellReport(file_name, <<"interface", ToString(k)>>, DependencyCategory,
                       "Fat Interface", Excess(fat[k], 10, 10), <<"methods">>)]
       \o (IF has_pkg /\ concrete > 5 /\ abstractions < 2
           THEN <<SmellReport(file_name, package_name, DependencyCategory,
                              "Unbalanced Abstractions", <<8, 10>>, <<"concrete">>)>>
           ELSE <<>>)
       \o (IF has_pkg /\ class_count > 15
           THEN <<SmellReport(file_name, package_name, DependencyCategory,
                              "Insufficient Modularization",
                              Excess(class_count, 15, 10), <<"classes">>)>>
           ELSE <<>>)
       \o (IF has_pkg /\ incoming > 8
           THEN <<SmellReport(file_name, package_name, DependencyCategory,
                              "Dependency Concentration",
                              Excess(incoming, 8, 8), <<"incoming">>)>>
           ELSE <<>>)

(***************************************************************************)
(* SmellAgent.detect / detect_code_smells.  has_context is FALSE when      *)
(* all_files and file_contents are None: ArchitectureSmellAgent then       *)
(* raises AttributeError on file_contents.items(), after the class, method *)
(* and field agents have run; so does a RecursionError of its has_cycle.   *)
(* The result carries the new _method_hashes.                              *)
(***************************************************************************)
SmellAgent_detect(hashes, code, file_name, has_context, all_files, file_contents, project_stats) ==
    LET cls == ClassSmellAgent_detect(code, file_name, project_stats, all_files, file_contents)
        mth == MethodSmellAgent_detect(hashes, code, file_name, project_stats)
        fld == FieldSmellAgent_detect(code, file_name)
        results == cls \o mth.reports \o fld
                     \o ArchitectureSmellAgent_detect(code, file_name, all_files, file_contents)
                     \o MiscSmellAgent_detect(code, file_name, project_stats)
                     \o DependencySmellAgent_detect(code, file_name, all_files, file_contents)
    IN IF has_context /\ ~CycleRaises(file_name, file_contents)
       THEN [ raised |-> FALSE, hashes |-> mth.hashes, reports |-> results,
              smells |-> [k \in 1..Len(results) |-> as_dict(results[k])] ]
       ELSE [ raised |-> TRUE, hashes |-> mth.hashes, reports |-> <<>>, smells |-> <<>> ]

detect_code_smells(hashes, code, file_name, has_context, all_files, file_contents, project_stats) ==
    SmellAgent_detect(hashes, code, file_name, has_context, all_files, file_contents, project_stats)


(***************************************************************************)
(* DependencyAgent.analyze.  The first alternative of each search,         *)
(* rf"import\\s+.*{base}[;.]", asks for a backslash after "import" and     *)
(* matches no Java text; what decides is the word match \b{base}\b.        *)
(***************************************************************************)
DependencyAgent_analyze(selected_file, code_content, all_files, file_contents) ==
    [ outgoing |-> {other \in Range(all_files) :
                      other # selected_file /\ BaseName(other) \in code_content.mentions},
      incoming |-> {e.name : e \in {x \in Range(file_contents) :
                      x.name # selected_file /\ BaseName(selected_file) \in x.code.mentions}},
      all_files |-> Range(all_files) ]

(***************************************************************************)
(* The ten metric groups.  Every value is held as a rational; a value the  *)
(* code rounds with round(x, 2) is held in hundredths.                     *)
(***************************************************************************)
\* a / b if b else 0
Ratio(a, b) == IF b = 0 THEN Whole(0) ELSE <<a, b>>
\* a / (b or 1)
Per(a, b) == IF b = 0 THEN <<a, 1>> ELSE <<a, b>>
Rounded(q) == <<Round2(q), 100>>

analyze_structural_metrics(code, fallback) ==
    LET c == code.counts
        a == code.ast
        base == [ LOC |-> Whole(Loc(code)),
                  eLOC |-> Whole(Loc(code) - code.comments - code.blanks) ]
    IN IF fallback
       THEN [ LOC |-> base.LOC, eLOC |-> base.eLOC,
              Classes |-> Whole(c.class_words),
              Interfaces |-> Whole(c.interfaces),
              MethodsPerClass |-> Ratio(Len(code.methods), c.class_words),
              FieldsPerClass |-> Ratio(c.fieldlike, c.class_words),
              Packages |-> Whole(c.packages),
              MaxClassSize |-> Whole(0),
              MaxMethodSize |-> Whole(0),
              Accessors |-> Whole(c.accessors) ]
       ELSE [ LOC |-> base.LOC, eLOC |-> base.eLOC,
              Classes |-> Whole(a.types),
              Interfaces |-> Whole(a.interfaces),
              MethodsPerClass |-> Ratio(a.type_methods, a.types),
              FieldsPerClass |-> Ratio(a.type_fields, a.types),
              Packages |-> Whole(a.packages),
              MaxClassSize |-> Whole(IF a.types > 0 THEN 1 ELSE 0),
              MaxMethodSize |-> Whole(IF a.methods > 0 THEN a.max_body + 1 ELSE 0),
              Accessors |-> Whole(a.accessors) ]

\* sum and max of one fact over the matched methods
SumOver(ms, F(_)) == SumSeq([k \in 1..Len(ms) |-> F(ms[k])])
RECURSIVE MaxSeq(_)
MaxSeq(xs) == IF xs = <<>> THEN 0 ELSE MaxInt(Head(xs), MaxSeq(Tail(xs)))

analyze_complexity_metrics(code, fallback) ==
    LET ms == code.methods
        a == code.ast
    IN IF fallback
       THEN [ Cyclomatic |-> Whole(SumOver(ms, LAMBDA m : 1 + m.decisions)),
              Cognitive |-> Whole(SumOver(ms, LAMBDA m : m.cognitive + m.nest)),
              NestingDepth |-> Whole(MaxSeq([k \in 1..Len(ms) |-> ms[k].nest])),
              SwitchComplexity |-> Whole(SumOver(ms, LAMBDA m : m.switches)),
              ControlFlow |-> Whole(SumOver(ms, LAMBDA m : m.control)),
              ConditionsPerMethod |->
                  Rounded(Ratio(SumOver(ms, LAMBDA m : m.conditions), Len(ms))) ]
       ELSE [ Cyclomatic |-> Whole(a.escaped + 1 + a.stmt),
              Cognitive |-> Whole(a.expr),
              NestingDepth |-> Whole(a.block),
              SwitchComplexity |-> Whole(a.switches),
              ControlFlow |-> Whole(a.flow),
              ConditionsPerMethod |-> Whole(a.cond) ]

analyze_coupling_metrics(code, fallback, has_path, file_path, has_context, all_files, file_contents) ==
    LET c == code.counts
        dep_result == DependencyAgent_analyze(file_path, code, all_files, file_contents)
        use_agent == has_context /\ has_path
        fan_in == IF use_agent THEN Cardinality(dep_result.incoming) ELSE c.import_lines
        fan_out == IF use_agent THEN Cardinality(dep_result.outgoing) ELSE c.new_types
    IN [ CBO |-> Whole(c.implements_kw + c.extends_kw),
         RFC |-> Whole(c.public_sigs),
         FanIn |-> Whole(fan_in),
         FanOut |-> Whole(fan_out),
         Ca |-> Whole(fan_in),
         ExternalDependencies |-> Whole(fan_in) ]

\* lcom, tcc and pairs of one class from method_field_usage
UsagePairs(usage) == {p \in (1..Len(usage)) \X (1..Len(usage)) : p[1] < p[2]}
Cohesion(usage) ==
    LET both == {p \in UsagePairs(usage) : usage[p[1]] # {} /\ usage[p[2]] # {}}
        tight == {p \in both : usage[p[1]] \cap usage[p[2]] # {}}
    IN [ lcom |-> Cardinality(both \ tight), tcc |-> Cardinality(tight),
         pairs |-> Cardinality(UsagePairs(usage)) ]

\* extract_classes_with_braces: the scan for the body of class match c ends
\* at this count of characters, and class_body = code[start:i-1]
ClassBodyEnd(code, c) ==
    IF c.open = 0 THEN BraceScan(code.chars, 0, 2)
    ELSE BraceScan(code.chars, c.open - 1, 1)
\* class_body, with the text before it kept in front so that positions in
\* it are positions in chars
ClassBody(code, c) == SubSeq(code.chars, 1, ClassBodyEnd(code, c) - 1)
InClassBody(code, c, at) == at >= c.open /\ at <= ClassBodyEnd(code, c) - 1

\* method_field_usage of one class: per method matched in class_body, the
\* fields matched in class_body that the body scanned for the method mentions
method_field_usage(code, c) ==
    LET class_body == ClassBody(code, c)
        fields == SelectSeq(code.field_decls, LAMBDA d : InClassBody(code, c, d.at))
        method_iter == SelectSeq(code.methods, LAMBDA m : InClassBody(code, c, m.open))
    IN [k \in 1..Len(method_iter) |->
          LET start == method_iter[k].open - 1
              i == BraceScan(class_body, start, 1)
              mbody == SubSeq(class_body, start + 1, i - 1)
          IN {fields[j].name : j \in {n \in 1..Len(fields) :
                  \E q \in 1..Len(mbody) : mbody[q] \in {fields[n].name, fields[n].item}}}]

analyze_cohesion_metrics(code, fallback) ==
    LET cs == code.class_matches
    IN IF fallback
       THEN [ LCOM |-> Whole(SumOver(cs, LAMBDA c : Cohesion(method_field_usage(code, c)).lcom)),
              TCC |-> Whole(SumOver(cs, LAMBDA c : Cohesion(method_field_usage(code, c)).tcc)),
              MethodPairs |->
                  Whole(SumOver(cs, LAMBDA c : Cohesion(method_field_usage(code, c)).pairs)) ]
       ELSE [ LCOM |-> Whole(0), TCC |-> Whole(0), MethodPairs |-> Whole(0) ]


\* the parents dict of the regex path: class name -> captured parent (the
\* last match of a name wins)
HasParent(cs, cls) == \E k \in 1..Len(cs) : cs[k].name = cls /\ cs[k].parent # NoParent
ParentOf(cs, cls) ==
    LET at == {k \in 1..Len(cs) : cs[k].name = cls /\ cs[k].parent # NoParent}
    IN cs[CHOOSE k \in at : \A j \in at : j <= k].parent

\* get_dit(cls): "while cls in parents: cls = parents[cls]; depth += 1".
\* seen holds the classes the loop has been at; when it comes back to one
\* of them it never leaves the loop, and diverges is TRUE.
RECURSIVE get_dit(_, _, _)
get_dit(cs, cls, seen) ==
    IF ~HasParent(cs, cls) THEN [ diverges |-> FALSE, depth |-> 0 ]
    ELSE IF cls \in seen THEN [ diverges |-> TRUE, depth |-> 0 ]
    ELSE LET up == get_dit(cs, ParentOf(cs, cls), seen \cup {cls})
         IN [ diverges |-> up.diverges, depth |-> up.depth + 1 ]

ZeroOO ==
    [ WMC |-> Whole(0), DIT |-> Whole(0), NOC |-> Whole(0), MIF |-> Whole(0),
      AIF |-> Whole(0), Abstractness |-> Whole(0), Specialization |-> Whole(0) ]

\* the result, and whether the call returns at all
analyze_oo_metrics(code, fallback) ==
    LET cs == code.class_matches
        names == {cs[k].name : k \in 1..Len(cs)}
        dits == [k \in 1..Len(cs) |-> get_dit(cs, cs[k].name, {})]
        hangs == \E k \in 1..Len(cs) : dits[k].diverges
        wmc == SumOver(cs, LAMBDA c : c.body_methods)
        noc == SumOver(cs, LAMBDA c :
                   (IF c.parent \in names THEN 1 ELSE 0)
                     + Cardinality({j \in 1..Len(c.impls) : c.impls[j] \in names}))
        total_overrides == SumOver(cs, LAMBDA c : c.overrides)
        abstract_classes == {cs[k].name : k \in {j \in 1..Len(cs) : cs[j].is_abstract}}
        total_types == Cardinality(names) + code.counts.interfaces
    IN IF ~fallback THEN [ returns |-> TRUE, metrics |-> ZeroOO ]
       ELSE IF hangs THEN [ returns |-> FALSE, metrics |-> ZeroOO ]
       ELSE [ returns |-> TRUE,
              metrics |->
                [ WMC |-> Whole(wmc),
                  DIT |-> Whole(MaxSeq([k \in 1..Len(cs) |-> dits[k].depth])),
                  NOC |-> Whole(noc),
                  MIF |-> Rounded(Per(total_overrides, wmc)),
                  AIF |-> Rounded(Whole(0)),
                  Abstractness |->
                      Rounded(Per(Cardinality(abstract_classes) + code.counts.interfaces,
                                  total_types)),
                  Specialization |-> Rounded(Per(total_overrides, wmc)) ] ]

\* both branches of the function compute the same values
analyze_maintainability_metrics(code, fallback) ==
    [ MaintainabilityIndex |-> Whole(0),
      CommentDensity |-> Per(code.comments, Loc(code)),
      JavadocDensity |-> Per(code.counts.javadoc_lines, Loc(code)),
      AverageCommentLength |-> Per(code.counts.slash_chars, code.counts.slash_lines),
      RatioCommented |-> Whole(0) ]

\* assertions counted from the second one on
ReliabilityLessOne(code, fallback) ==
    [ ExceptionHandlers |-> Whole(code.counts.catches),
      CatchDensity |-> Per(code.counts.catches, Loc(code)),
      Assertions |-> Whole(code.counts.asserts - 1),
      RatioTested |-> Whole(0),
      UnitTests |-> Whole(code.counts.tests) ]

analyze_reliability_metrics(code, fallback) ==
    [ ExceptionHandlers |-> Whole(code.counts.catches),
      CatchDensity |-> Per(code.counts.catches, Loc(code)),
      Assertions |-> Whole(code.counts.asserts),
      RatioTested |-> Whole(0),
      UnitTests |-> Whole(code.counts.tests) ]

\* a fallback branch that leaves 'Number of Similar Methods' out
DuplicationOfBlocksOnly(code, fallback) ==
    IF fallback
    THEN [ DuplicatedBlocks |-> Whole(code.counts.blocks),
           DuplicatedLines |-> Whole(code.counts.repeated_lines) ]
    ELSE [ DuplicatedBlocks |-> Whole(0), DuplicatedLines |-> Whole(0),
           SimilarMethods |-> Whole(0) ]

analyze_duplication_metrics(code, fallback) ==
    IF fallback
    THEN [ DuplicatedBlocks |-> Whole(code.counts.blocks),
           DuplicatedLines |-> Whole(code.counts.repeated_lines),
           SimilarMethods |-> Whole(Len(code.methods)) ]
    ELSE [ DuplicatedBlocks |-> Whole(0), DuplicatedLines |-> Whole(0),
           SimilarMethods |-> Whole(0) ]

analyze_documentation_metrics(code, fallback) ==
    [ Todos |-> Whole(code.counts.todos),
      NamingViolations |-> Whole(IF fallback THEN code.counts.bad_names ELSE 0),
      BlankLineDensity |-> Per(code.blanks, Loc(code)),
      IdentifierLength |->
          IF fallback THEN Per(code.counts.ident_chars, code.counts.ident_count)
          ELSE Whole(0) ]

analyze_security_metrics(code, fallback) ==
    [ HardcodedCredentials |-> Whole(code.counts.creds),
      DeprecatedAPIs |-> Whole(code.counts.deprecated),
      UnusedImports |-> Whole(code.counts.bare_imports),
      MissingModifiers |-> Whole(IF fallback THEN code.counts.decl_semis ELSE 0),
      PublicDataMembers |-> Whole(IF fallback THEN code.counts.public_members ELSE 0),
      UnsafeCasts |-> Whole(code.counts.casts) ]

(***************************************************************************)
(* analyze_java_code.  has_session: 'uploaded_files' is a key of the       *)
(* session state, and files is its value.  list(tree) of a text that       *)
(* parses always holds the CompilationUnit, so "fallback or not tree" is   *)
(* fallback.  The result tells whether the call returns; keys are the keys *)
(* of the metrics mapping and debug_keys those of metrics['_debug'].       *)
(***************************************************************************)
GroupNames ==
    { "Structural Metrics", "Complexity Metrics", "Coupling and Dependency Metrics",
      "Cohesion Metrics", "Object-Oriented Design Metrics",
      "Maintainability and Readability", "Reliability and Testability Metrics",
      "Code Duplication and Redundancy", "Documentation and Style",
      "Security and Quality Flags" }

\* str(e) of the exception javalang.parse.parse raises
ExceptionText(code) == IF code.parse = "lexer" THEN "lexer error message" ELSE ""

analyze_java_code(code, has_path, file_path, has_session, files) ==
    LET fallback == code.parse # "ok"
        javalang_exc == ExceptionText(code)
        all_files == AllFiles(files)
        file_contents == FileContents(files)
        oo == analyze_oo_metrics(code, fallback)
        groups ==
            [ Structural |-> analyze_structural_metrics(code, fallback),
              Complexity |-> analyze_complexity_metrics(code, fallback),
              Coupling |-> analyze_coupling_metrics(code, fallback, has_path, file_path,
                                                    has_session, all_files, file_contents),
              Cohesion |-> analyze_cohesion_metrics(code, fallback),
              ObjectOriented |-> oo.metrics,
              Maintainability |-> analyze_maintainability_metrics(code, fallback),
              Reliability |-> analyze_reliability_metrics(code, fallback),
              Duplication |-> analyze_duplication_metrics(code, fallback),
              Documentation |-> analyze_documentation_metrics(code, fallback),
              Security |-> analyze_security_metrics(code, fallback) ]
    IN [ returns |-> oo.returns,
         groups |-> groups,
         keys |-> IF ~oo.returns THEN {}
                  ELSE GroupNames \cup (IF fallback THEN {"_warnings", "_debug"} ELSE {}),
         debug_keys |->
             IF ~oo.returns \/ ~fallback THEN {}
             ELSE (IF javalang_exc # "" THEN {"javalang_exception"} ELSE {})
                    \cup {"complexity_methods", "cohesion_classes", "oo_classes",
                          "oo_code_head", "oo_inheritance"}
                    \cup (IF code.class_matches = <<>> THEN {"oo_warning"} ELSE {}) ]


(***************************************************************************)
(* Java texts of the model.  A class text is                               *)
(*     class X [extends P] {        <- lead: 1 line, plus padding lines    *)
(*       T m1() {                   <- "sig" "{" "nl"                      *)
(*         s;                       <- stmt "nl", n times                  *)
(*       }                          <- "}" "nl"                            *)
(*       ...                                                               *)
(*     }                            <- "}" "nl"                            *)
(* and its facts are what the patterns and the parse find in that text.    *)
(***************************************************************************)
\* the items of one method with n statement lines
MethodItems(stmt, n) ==
    <<"sig", "{", "nl">> \o Concat(Repeat(<<stmt, "nl">>, n)) \o <<"}", "nl">>

\* bodies: a sequence of <<method name, statement, number of lines>>
RECURSIVE ClassItems(_)
ClassItems(bodies) ==
    IF bodies = <<>> THEN <<>>
    ELSE MethodItems(Head(bodies)[2], Head(bodies)[3]) \o ClassItems(Tail(bodies))

\* the position in chars of the "{" of the k-th method
OpenOf(bodies, k) == Len(ClassItems(SubSeq(bodies, 1, k - 1))) + 2

\* a text with one class: pad further lines before the first matched method
\* (fields, and extra methods whose signatures the method pattern does not
\* match, e.g. with a generic return type), then the methods of bodies
JavaClass(cname, parent, parse, pad, n_fields, extra, bodies) ==
    LET nb == Len(bodies)
        nm == extra + nb
    IN [ EmptyText EXCEPT
           !.lead = 1 + pad,
           !.lead_opens = 1,
           !.chars = ClassItems(bodies) \o <<"}", "nl">>,
           !.parse = parse,
           !.mentions = {cname} \cup (IF parent = NoParent THEN {} ELSE {parent}),
           !.classes = <<[ Class(cname, parent) EXCEPT
                             !.n_methods = nm, !.n_fields = n_fields,
                             !.n_prefixes = nm ]>>,
           !.ast = [ ZeroAst EXCEPT !.types = 1, !.type_methods = nm,
                                    !.type_fields = n_fields, !.methods = nm,
                                    !.max_body = MaxSeq([k \in 1..nb |-> bodies[k][3]]),
                                    !.stmt = SumSeq([k \in 1..nb |-> bodies[k][3]]) ],
           !.class_matches = <<[ ClassMatch(cname, parent) EXCEPT
                                   !.span = 1 + pad + (IF nb = 0 THEN 1
                                                       ELSE 1 + bodies[1][3] + 1),
                                   !.body_methods = nb, !.body_fields = n_fields ]>>,
           !.methods = [k \in 1..nb |->
                           [ Method(<<bodies[k][1]>>, OpenOf(bodies, k)) EXCEPT
                               !.span = bodies[k][3] + 3, !.named_once = TRUE ]],
           !.counts = [ ZeroCounts EXCEPT
                          !.class_words = 1, !.fieldlike = n_fields,
                          !.decl_semis = n_fields,
                          !.extends_kw = IF parent = NoParent THEN 0 ELSE 1,
                          !.ident_count = 2, !.ident_chars = 6 ] ]

\* a class whose fields (names) are declared in the lines before its methods;
\* a method of bodies with statement "x" mentions the field x
CohesionClass(parse, fields, bodies) ==
    LET t == JavaClass(<<"A">>, NoParent, parse, Len(fields), Len(fields), 0, bodies)
    IN [ t EXCEPT !.field_decls = [k \in 1..Len(fields) |->
                                      FieldDecl(fields[k], "decl", 0)] ]

\* class A { int x; a1: x; a2: x; } class B { int y; b1: y; }
\* The scan for the body of A ends one "}" late, inside B: the patterns find
\* b1 and y in the body of A as well.
TwoClasses(parse) ==
    LET a == ClassItems(<< <<"a1", "x", 1>>, <<"a2", "x", 1>> >>)
        t == JavaClass(<<"A">>, NoParent, parse, 1, 1, 0,
                       << <<"a1", "x", 1>>, <<"a2", "x", 1>> >>)
    IN [ t EXCEPT
           !.chars = a \o <<"}", "nl", "class B ", "{", "nl", "int y", "nl">>
                       \o MethodItems("y", 1) \o <<"}", "nl">>,
           !.classes = <<[ Class(<<"A">>, NoParent) EXCEPT
                             !.n_methods = 2, !.n_fields = 1, !.n_prefixes = 2 ],
                         [ Class(<<"B">>, NoParent) EXCEPT
                             !.n_methods = 1, !.n_fields = 1, !.n_prefixes = 1 ]>>,
           !.ast = [ @ EXCEPT !.types = 2, !.type_methods = 3, !.type_fields = 2,
                              !.methods = 3, !.stmt = 3 ],
           !.class_matches =
               <<[ ClassMatch(<<"A">>, NoParent) EXCEPT
                     !.span = 5, !.body_methods = 3, !.body_fields = 2 ],
                 [ ClassMatch(<<"B">>, NoParent) EXCEPT
                     !.span = 5, !.body_methods = 1, !.body_fields = 1,
                     !.open = Len(a) + 4 ]>>,
           !.methods = @ \o <<[ Method(<<"b1">>, Len(a) + 9) EXCEPT
                                  !.span = 4, !.named_once = TRUE ]>>,
           !.field_decls = << FieldDecl("x", "decl", 0),
                              FieldDecl("y", "int y", Len(a) + 6) >>,
           !.counts = [ @ EXCEPT !.class_words = 2, !.fieldlike = 2, !.decl_semis = 2,
                                 !.ident_count = 4, !.ident_chars = 12 ] ]

\* the text of JavaClass cut off inside its last method: the "}" of that
\* method and the "}" of the class are missing, and no parser accepts it
UnclosedClass(cname, bodies) ==
    LET nb == Len(bodies)
        t == JavaClass(cname, NoParent, "syntax", 0, 0, 0, bodies)
    IN [ t EXCEPT
           !.chars = SubSeq(ClassItems(bodies), 1, Len(ClassItems(bodies)) - 2),
           !.class_matches[1].span = IF nb = 1 THEN 0 ELSE @,
           !.methods[nb].span = 0 ]

\* the same text with import statements for the given names in front
WithImports(t, deps) ==
    [ t EXCEPT !.lead = @ + Cardinality(deps),
               !.imports = deps,
               !.mentions = @ \cup {<<d[Len(d)]>> : d \in deps},
               !.counts = [ @ EXCEPT !.import_lines = Cardinality(deps) ] ]

\* no "repo_dir" in the session state
NoRepoDir == [ present |-> FALSE, files |-> <<>> ]

\* an uploaded file with its bytes, and a file found by scan_repo_files
\* (content is then the text on disk under repo_dir)
FileOf(name, text) ==
    [ name |-> name, has_content |-> TRUE, on_disk |-> FALSE, content |-> text ]
ScannedFile(name, text) ==
    [ name |-> name, has_content |-> FALSE, on_disk |-> TRUE, content |-> text ]


(***************************************************************************)
(* The corpora a user uploads in the model.                                *)
(***************************************************************************)
\* file i holds class <letter i> with one method of n lines of stmt
MethodFile(i, stmt, n) ==
    FileOf(NameOf(i), JavaClass(<<Letters[i]>>, NoParent, "ok", 0, 0, 0,
                                <<<<"run", stmt, n>>>>))
\* file i holds an empty class <letter i> and imports the classes of deps
ImportFile(i, deps) ==
    FileOf(NameOf(i), WithImports(JavaClass(<<Letters[i]>>, NoParent, "ok", 0, 0, 0, <<>>),
                                  {<<Letters[j]>> : j \in deps}))
\* a file of blank lines only
BlankFile(i) == FileOf(NameOf(i), [EmptyText EXCEPT !.lead = 2, !.blanks = 2])

AllCorpora ==
    { <<MethodFile(1, "s1", 1)>>,
      <<MethodFile(1, "s1", 1), MethodFile(2, "s1", 1)>>,
      <<MethodFile(1, "s1", 1), MethodFile(2, "s2", 3), MethodFile(3, "s1", 1)>>,
      <<ImportFile(1, {2}), ImportFile(2, {3}), ImportFile(3, {1})>>,
      <<ImportFile(1, {2, 3}), ImportFile(2, {3}), ImportFile(3, {})>>,
      <<BlankFile(1), MethodFile(2, "s1", 1)>>,
      <<ImportFile(1, {2}), ImportFile(2, {3}), ImportFile(3, {4}), ImportFile(4, {1})>> }
Corpora == {c \in AllCorpora : Len(c) <= MaxFiles}

\* what scan_repo_files makes of a cloned repository with the same files
Scanned(c) == [k \in 1..Len(c) |-> ScannedFile(c[k].name, c[k].content)]
ClonedCorpora == {Scanned(c) : c \in {x \in Corpora : Len(x) = 2}}

(***************************************************************************)
(* State.                                                                  *)
(***************************************************************************)
VARIABLES
    uploaded_files,   \* st.session_state["uploaded_files"]
    repo_dir,         \* st.session_state["repo_dir"]: [present, files on disk]
    all_smells,       \* st.session_state["all_smells"]: [is_none, smells]
    run_cache,        \* the st.session_state[run_key] entries
    button_shown,     \* the last script run drew the "Analyze All Files" button
    method_hashes,    \* MethodSmellAgent._method_hashes
    pc,               \* where the script run is
    clicked,          \* st.button(...) of this script run
    selected_file,    \* position in files of the selectbox value (0: none)
    code_content,     \* code_content of this script run
    project_stats,    \* project_stats of this script run
    loop_i,           \* the file the loop over all_files is at
    acc,              \* the local list all_smells of the loop
    renders,          \* script runs so far
    stats_call,       \* the last call of compute_project_stats and its result
    detect_call,      \* the last call of detect_code_smells and its result
    metrics_call,     \* the last call of analyze_java_code and its result
    last_run,         \* the last completed project-wide run: corpus and result
    prev_run,         \* the completed project-wide run before it
    threads           \* the calls of MethodSmellAgent.detect under way in other
                      \* threads of the process, each at a statement

vars == << uploaded_files, repo_dir, all_smells, run_cache, button_shown,
           method_hashes, pc, clicked, selected_file, code_content, project_stats,
           loop_i, acc, renders, stats_call, detect_call, metrics_call,
           last_run, prev_run, threads >>

NoSmells == [ is_none |-> TRUE, smells |-> <<>> ]
NoStatsCall == [ made |-> FALSE, files |-> <<>>, stats |-> NoStats, hashes_before |-> {} ]
NoDetectCall ==
    [ made |-> FALSE, code |-> EmptyText, file_name |-> <<>>, has_context |-> FALSE,
      files |-> <<>>, file_contents |-> <<>>, project_stats |-> NoStats,
      hashes_before |-> {},
      raised |-> FALSE, reports |-> <<>>, smells |-> <<>> ]
NoMetricsCall ==
    [ made |-> FALSE, code |-> EmptyText, has_session |-> FALSE, files |-> <<>>,
      has_path |-> FALSE, repo_dir |-> NoRepoDir, file_path |-> <<>>,
      result |-> analyze_java_code(EmptyText, FALSE, <<>>, FALSE, <<>>) ]
NoRun == [ done |-> FALSE, files |-> <<>>, smells |-> <<>> ]

\* the state of a new session in a new process
SessionInit ==
    /\ uploaded_files = <<>>
    /\ repo_dir = NoRepoDir
    /\ all_smells = NoSmells
    /\ run_cache = {}
    /\ button_shown = FALSE
    /\ method_hashes = {}
    /\ pc = "idle"
    /\ clicked = FALSE
    /\ selected_file = 0
    /\ code_content = EmptyText
    /\ project_stats = NoStats
    /\ loop_i = 0
    /\ acc = <<>>
    /\ renders = 0
    /\ stats_call = NoStatsCall
    /\ detect_call = NoDetectCall
    /\ metrics_call = NoMetricsCall
    /\ last_run = NoRun
    /\ prev_run = NoRun
    /\ threads = <<>>

Init == SessionInit


(***************************************************************************)
(* render_upload_tab: the user uploads a ZIP or individual files, or       *)
(* clones a repository.  The script run goes on with render_analyze_tab.   *)
(***************************************************************************)
UploadFiles(c) ==
    /\ pc = "idle"
    /\ renders < MaxRenders
    /\ uploaded_files' = c
    /\ pc' = "tab"
    /\ UNCHANGED << threads, repo_dir, all_smells, run_cache, button_shown, method_hashes,
                    clicked, selected_file, code_content, project_stats, loop_i, acc,
                    renders, stats_call, detect_call, metrics_call, last_run, prev_run >>

CloneRepo(c) ==
    /\ pc = "idle"
    /\ renders < MaxRenders
    /\ uploaded_files' = c
    /\ repo_dir' = [ present |-> TRUE, files |-> c ]
    /\ pc' = "tab"
    /\ UNCHANGED << threads, all_smells, run_cache, button_shown, method_hashes,
                    clicked, selected_file, code_content, project_stats, loop_i, acc,
                    renders, stats_call, detect_call, metrics_call, last_run, prev_run >>

(***************************************************************************)
(* render_analyze_tab, in the steps of one script run.                     *)
(***************************************************************************)
\* code_content and file_path for the selected file object
ReadFile(f, repo) ==
    IF repo.present
    THEN [ code |-> IF \E g \in Range(repo.files) : g.name = f.name
                    THEN (CHOOSE g \in Range(repo.files) : g.name = f.name).content
                    ELSE EmptyText,
           path |-> <<"repo_dir", "/">> \o f.name ]
    ELSE [ code |-> IF f.has_content THEN f.content ELSE EmptyText,
           path |-> f.name ]
ReadSelected(f) == ReadFile(f, repo_dir)

Cached(key) == \E e \in run_cache : e.key = key

\* from the top of the function to the metrics of the selected file; click:
\* this run was started by a press of the "Analyze All Files" button
RenderStart(sel, click) ==
    /\ pc \in {"idle", "tab"}
    /\ renders < MaxRenders
    /\ click => (pc = "idle" /\ button_shown)
    /\ (sel = 0) <=> (uploaded_files = <<>>)
    /\ renders' = renders + 1
    /\ clicked' = click
    /\ selected_file' = sel
    /\ stats_call' = NoStatsCall
    /\ detect_call' = NoDetectCall
    /\ IF uploaded_files = <<>>
       THEN /\ pc' = "idle"
            /\ button_shown' = FALSE
            /\ UNCHANGED << code_content, run_cache, metrics_call >>
       ELSE LET f == uploaded_files[sel]
                rd == ReadSelected(f)
                r == analyze_java_code(rd.code, TRUE, rd.path, TRUE, uploaded_files)
            IN /\ code_content' = rd.code
               /\ IF IsBlank(rd.code)
                  THEN /\ pc' = "idle"
                       /\ button_shown' = FALSE
                       /\ UNCHANGED << run_cache, metrics_call >>
                  ELSE IF Cached(f.name)
                  THEN /\ pc' = "stats"
                       /\ UNCHANGED << run_cache, metrics_call, button_shown >>
                  ELSE /\ metrics_call' =
                            [ made |-> TRUE, code |-> rd.code, has_session |-> TRUE,
                              files |-> uploaded_files, has_path |-> TRUE, repo_dir |-> repo_dir,
                              file_path |-> rd.path, result |-> r ]
                       /\ pc' = IF r.returns THEN "stats" ELSE "hung"
                       /\ run_cache' = IF r.returns
                                       THEN run_cache \cup
                                              {[ key |-> f.name, code |-> rd.code, result |-> r ]}
                                       ELSE run_cache
                       /\ UNCHANGED button_shown
    /\ UNCHANGED << threads, uploaded_files, repo_dir, all_smells, method_hashes,
                    project_stats, loop_i, acc, last_run, prev_run >>

\* all_files, file_contents and project_stats of the smells tab, and the
\* reset that a press of the button starts the loop with
ComputeStats ==
    /\ pc = "stats"
    /\ LET all_files == AllFiles(uploaded_files)
           file_contents == FileContents(uploaded_files)
           stats == compute_project_stats(all_files, file_contents)
       IN /\ project_stats' = stats
          /\ stats_call' = [ made |-> TRUE, files |-> uploaded_files, stats |-> stats,
                             hashes_before |-> method_hashes ]
    /\ IF clicked
       THEN /\ all_smells' = NoSmells
            /\ acc' = <<>>
            /\ loop_i' = 1
            /\ pc' = "loop"
       ELSE /\ pc' = "tab2"
            /\ UNCHANGED << all_smells, acc, loop_i >>
    /\ UNCHANGED << threads, uploaded_files, repo_dir, run_cache, button_shown, method_hashes,
                    clicked, selected_file, code_content, renders, detect_call,
                    metrics_call, last_run, prev_run >>

\* the record of one call of detect_code_smells
DetectCall(code, file_name, file_contents, stats, r) ==
    [ made |-> TRUE, code |-> code, file_name |-> file_name, has_context |-> TRUE,
      files |-> uploaded_files, file_contents |-> file_contents,
      project_stats |-> stats, hashes_before |-> method_hashes,
      raised |-> r.raised, reports |-> r.reports, smells |-> r.smells ]

\* a loop that puts the reports of a file in front of the collected ones
PrependSmells(collected, r) == IF r.raised THEN collected ELSE r.smells \o collected

\* a loop that gives up what it has collected when a file raises
ResetOnError(collected, r) == IF r.raised THEN <<>> ELSE collected \o r.smells

\* try: all_smells.extend(detect_code_smells(...)); except Exception: the
\* error is shown and the list stays as it is
ExtendSmells(collected, r) == IF r.raised THEN collected ELSE collected \o r.smells

\* one iteration of "for i, fname in enumerate(all_files)"
AnalyzeFile ==
    /\ pc = "loop"
    /\ loop_i <= Len(uploaded_files)
    /\ LET all_files == AllFiles(uploaded_files)
           file_contents == FileContents(uploaded_files)
           fname == all_files[loop_i]
           fcode == CodeOf(file_contents, fname)
           r == detect_code_smells(method_hashes, fcode, fname, TRUE, all_files,
                                   file_contents, project_stats)
       IN /\ acc' = ExtendSmells(acc, r)
          /\ method_hashes' = r.hashes
          /\ detect_call' = DetectCall(fcode, fname, file_contents, project_stats, r)
    /\ loop_i' = loop_i + 1
    /\ UNCHANGED << threads, uploaded_files, repo_dir, all_smells, run_cache, button_shown, pc,
                    clicked, selected_file, code_content, project_stats, renders,
                    stats_call, metrics_call, last_run, prev_run >>

\* st.session_state["all_smells"] = all_smells
StoreAll ==
    /\ pc = "loop"
    /\ loop_i > Len(uploaded_files)
    /\ all_smells' = [ is_none |-> FALSE, smells |-> acc ]
    /\ prev_run' = last_run
    /\ last_run' = [ done |-> TRUE, files |-> uploaded_files, smells |-> acc ]
    /\ pc' = "tab2"
    /\ UNCHANGED << threads, uploaded_files, repo_dir, run_cache, button_shown, method_hashes,
                    clicked, selected_file, code_content, project_stats, loop_i, acc,
                    renders, stats_call, detect_call, metrics_call >>

\* "Code Smells in Selected File": detect_code_smells for the selected file,
\* on every script run that gets here
SelectedFileSmells ==
    /\ pc = "tab2"
    /\ LET all_files == AllFiles(uploaded_files)
           file_contents == FileContents(uploaded_files)
           fname == uploaded_files[selected_file].name
           r == detect_code_smells(method_hashes, code_content, fname, TRUE, all_files,
                                   file_contents, project_stats)
       IN /\ method_hashes' = r.hashes
          /\ detect_call' = DetectCall(code_content, fname, file_contents, project_stats, r)
    /\ button_shown' = TRUE
    /\ pc' = "idle"
    /\ UNCHANGED << threads, uploaded_files, repo_dir, all_smells, run_cache, clicked,
                    selected_file, code_content, project_stats, loop_i, acc, renders,
                    stats_call, metrics_call, last_run, prev_run >>

Next ==
    \/ \E c \in Corpora : UploadFiles(c)
    \/ \E c \in ClonedCorpora : CloneRepo(c)
    \/ \E sel \in 0..MaxFiles, click \in BOOLEAN :
          sel <= Len(uploaded_files) /\ RenderStart(sel, click)
    \/ ComputeStats
    \/ AnalyzeFile
    \/ StoreAll
    \/ SelectedFileSmells

Spec == Init /\ [][Next]_vars


(***************************************************************************)
(* The functions of the module called directly: the state starts with an   *)
(* input (a corpus, the file under analysis, project stats as a caller     *)
(* may pass them) in a new process, and the actions apply the functions.   *)
(***************************************************************************)
\* a class text with the given "public <type> <name>;" declarations
FieldClass(parse, fields) ==
    LET words == Len(SelectSeq(fields, LAMBDA f : f.word_type))
        t == JavaClass(<<"A">>, NoParent, parse, Len(fields), Len(fields), 0, <<>>)
    IN [ t EXCEPT !.pubfields = fields,
                  !.counts = [ @ EXCEPT !.fieldlike = words, !.decl_semis = words,
                                        !.public_members = words ] ]

\* "class A extends B { }" and "class B extends A { }" in one text
CyclicPair(parse) ==
    LET t == JavaClass(<<"A">>, <<"B">>, parse, 0, 0, 0, <<>>)
    IN [ t EXCEPT !.chars = <<"}", "nl", "class B extends A ", "{", "nl", "}", "nl">>,
                  !.classes = <<Class(<<"A">>, <<"B">>), Class(<<"B">>, <<"A">>)>>,
                  !.class_matches = <<[ClassMatch(<<"A">>, <<"B">>) EXCEPT !.span = 2],
                                      [ClassMatch(<<"B">>, <<"A">>) EXCEPT !.span = 2,
                                                                           !.open = 4]>>,
                  !.ast = [ @ EXCEPT !.types = 2 ],
                  !.counts = [ @ EXCEPT !.class_words = 2, !.extends_kw = 2,
                                        !.ident_count = 8, !.ident_chars = 24 ] ]

ParseOutcomes == {"ok", "syntax", "lexer"}

ClassTexts ==
    { JavaClass(<<"A">>, parent, parse, shape[1], shape[2], shape[3], <<>>) :
        parent \in {NoParent, <<"B">>}, parse \in ParseOutcomes,
        \* <<padding lines, fields, methods>>; 298 lines of padding make a
        \* text of 300 lines
        shape \in { <<0, 0, 0>>, <<298, 12, 15>>, <<298, 12, 3>>, <<160, 12, 15>> } }

MethodTexts ==
    { JavaClass(<<"A">>, NoParent, parse, 0, 0, 0, bodies) :
        parse \in {"ok", "syntax"},
        bodies \in { <<<<"run", "s1", 1>>>>,
                     <<<<"run", "s1", 48>>>>,
                     <<<<"run", "s1", 80>>>>,
                     <<<<"shortOne", "s1", 1>>, <<"longOne", "s2", 60>>>>,
                     <<<<"first", "s1", 2>>, <<"second", "s1", 2>>>> } }

FieldTexts ==
    { FieldClass(parse, fields) :
        parse \in ParseOutcomes,
        fields \in { <<PublicField(<<"x">>, TRUE)>>,
                     <<PublicField(<<"y">>, FALSE)>>,
                     <<PublicField(<<"x">>, TRUE), PublicField(<<"y">>, FALSE)>> } }

OtherTexts ==
    { EmptyText, [EmptyText EXCEPT !.parse = "syntax"],
      CyclicPair("ok"), CyclicPair("syntax"), CyclicPair("lexer") }

UnbalancedTexts ==
    { UnclosedClass(<<"A">>, bodies) :
        bodies \in { <<<<"run", "s1", 1>>>>,
                     <<<<"first", "s1", 2>>, <<"second", "s2", 3>>>> } }

\* a class with one method of n parameters, each written "type name" with a
\* type that is neither primitive nor String: two \w+ tokens per parameter
ParamsClass(parse, n) ==
    LET t == JavaClass(<<"A">>, NoParent, parse, 0, 0, 0, << <<"run", "s1", 1>> >>)
    IN [ t EXCEPT !.methods[1].params = n, !.methods[1].words = 2 * n ]

ParamTexts == { ParamsClass(parse, n) : parse \in {"ok", "syntax"}, n \in {2, 3, 5, 6} }

\* a class of 4 fields and 1 method, and the same text with an empty class
\* C (no extends clause) after it
DataClass(parent) ==
    JavaClass(<<"A">>, parent, "ok", 4, 4, 0, << <<"run", "s1", 1>> >>)
DataClassThenPlain(parent) ==
    LET t == DataClass(parent)
    IN [ t EXCEPT
           !.chars = @ \o <<"class C ", "{", "nl", "}", "nl">>,
           !.classes = @ \o <<Class(<<"C">>, NoParent)>>,
           !.ast = [ @ EXCEPT !.types = 2 ],
           !.class_matches = @ \o <<[ ClassMatch(<<"C">>, NoParent) EXCEPT
                                        !.span = 2, !.open = Len(t.chars) + 2 ]>>,
           !.counts = [ @ EXCEPT !.class_words = 2, !.ident_count = 4,
                                 !.ident_chars = 12 ] ]

DataTexts ==
    { DataClass(NoParent), DataClass(<<"B">>),
      DataClassThenPlain(NoParent), DataClassThenPlain(<<"B">>) }

CohesionTexts ==
    { CohesionClass(parse, <<"x", "y">>, bodies) :
        parse \in {"ok", "syntax"},
        bodies \in { << <<"m1", "x", 1>>, <<"m2", "y", 1>>, <<"m3", "s1", 1>> >>,
                     << <<"m1", "s1", 1>>, <<"m2", "x", 1>> >>,
                     << <<"m1", "x", 1>>, <<"m2", "x", 1>> >> } }
      \cup { TwoClasses("ok"), TwoClasses("syntax") }

FnTexts == ClassTexts \cup MethodTexts \cup FieldTexts \cup OtherTexts
             \cup UnbalancedTexts \cup CohesionTexts \cup ParamTexts \cup DataTexts

\* a file at a path, with an empty class and the given dotted imports
PathFile(path, cname, deps) ==
    FileOf(path, WithImports(JavaClass(<<cname>>, NoParent, "ok", 0, 0, 0, <<>>), deps))

\* myutil/Helper.java imports app.Main; app/Main.java imports util.Helper,
\* a class that no file of the corpus declares
SuffixCorpus ==
    << PathFile(<<"my", "util", "/", "Helper", ".java">>, "Helper",
                {<<"app", ".", "Main">>}),
       PathFile(<<"app", "/", "Main", ".java">>, "Main",
                {<<"util", ".", "Helper">>}) >>

\* A.java with a method, B.java -> C.java -> D.java -> E.java by import, and
\* E.java with the method of A.java: the search from B.java is one call
\* deeper than RecursionLimit
DeepChain ==
    << MethodFile(1, "s1", 1), ImportFile(2, {3}), ImportFile(3, {4}),
       ImportFile(4, {5}), MethodFile(5, "s1", 1) >>

\* A.java imports B; B.java and C.java import each other: A.java reaches
\* the cycle and is not on it
TailCorpus == << ImportFile(1, {2}), ImportFile(2, {3}), ImportFile(3, {2}) >>

\* A.java: class A extends P; B.java: class B extends PQ, a parent whose
\* name begins like P
HierarchyCorpus ==
    << FileOf(NameOf(1), JavaClass(<<"A">>, <<"P">>, "ok", 0, 0, 0, <<>>)),
       FileOf(NameOf(2), JavaClass(<<"B">>, <<"P", "Q">>, "ok", 0, 0, 0, <<>>)) >>

\* every order of the files of a corpus
Orders(c) ==
    { [k \in 1..Len(c) |-> c[p[k]]] : p \in Permutations(1..Len(c)) }

FnCorpora ==
    UNION { Orders(c) : c \in Corpora }
      \cup { SuffixCorpus, DeepChain, TailCorpus, HierarchyCorpus, <<>>, <<FileOf(NameOf(1), EmptyText)>>,
             <<FileOf(NameOf(1), EmptyText), ImportFile(2, {1})>> }

\* project stats as a caller passes them: None, or medians >= 0
StatsPool == { NoStats, Stats(Whole(0), Whole(0)), Stats(Whole(100), Whole(40)) }

\* an input: files, the position of the file under analysis (0 when the
\* corpus is empty: the text is then the empty text), and the project stats
FnInputs ==
    { [ files |-> <<FileOf(NameOf(1), t)>>, sel |-> 1, stats |-> st ] :
        t \in FnTexts, st \in StatsPool }
      \cup { [ files |-> c, sel |-> IF c = <<>> THEN 0 ELSE 1, stats |-> NoStats ] :
               c \in FnCorpora }

InitFn ==
    \E inp \in FnInputs :
      /\ uploaded_files = inp.files
      /\ selected_file = inp.sel
      /\ code_content = IF inp.sel = 0 THEN EmptyText ELSE inp.files[inp.sel].content
      /\ project_stats = inp.stats
      /\ repo_dir = NoRepoDir
      /\ all_smells = NoSmells
      /\ run_cache = {}
      /\ button_shown = FALSE
      /\ method_hashes = {}
      /\ pc = "fn"
      /\ clicked = FALSE
      /\ loop_i = 0
      /\ acc = <<>>
      /\ renders = 0
      /\ stats_call = NoStatsCall
      /\ detect_call = NoDetectCall
      /\ metrics_call = NoMetricsCall
      /\ last_run = NoRun
      /\ prev_run = NoRun
      /\ threads = <<>>

\* the name the file under analysis is passed by
FnName == IF selected_file = 0 THEN NameOf(1) ELSE uploaded_files[selected_file].name

\* compute_project_stats(all_files, file_contents)
CallStats ==
    /\ pc = "fn"
    /\ LET stats == compute_project_stats(AllFiles(uploaded_files),
                                          FileContents(uploaded_files))
       IN /\ project_stats' = stats
          /\ stats_call' = [ made |-> TRUE, files |-> uploaded_files, stats |-> stats,
                             hashes_before |-> method_hashes ]
    /\ UNCHANGED << threads, uploaded_files, repo_dir, all_smells, run_cache, button_shown,
                    method_hashes, pc, clicked, selected_file, code_content, loop_i, acc,
                    renders, detect_call, metrics_call, last_run, prev_run >>

\* detect_code_smells(code, file_name, all_files, file_contents, project_stats),
\* or detect_code_smells(code, file_name) with all_files, file_contents and
\* project_stats left at their default None (has_context FALSE)
CallDetect(has_context) ==
    /\ pc = "fn"
    /\ LET all_files == IF has_context THEN AllFiles(uploaded_files) ELSE <<>>
           file_contents == IF has_context THEN FileContents(uploaded_files) ELSE <<>>
           stats == IF has_context THEN project_stats ELSE NoStats
           r == detect_code_smells(method_hashes, code_content, FnName, has_context,
                                   all_files, file_contents, stats)
       IN /\ method_hashes' = r.hashes
          /\ detect_call' = [ DetectCall(code_content, FnName, file_contents, stats, r)
                                EXCEPT !.has_context = has_context,
                                       !.files = IF has_context THEN uploaded_files
                                                 ELSE <<>> ]
    /\ UNCHANGED << threads, uploaded_files, repo_dir, all_smells, run_cache, button_shown,
                    pc, clicked, selected_file, code_content, project_stats, loop_i, acc,
                    renders, stats_call, metrics_call, last_run, prev_run >>

\* analyze_java_code(code, file_path), with or without uploaded_files in
\* the session state
CallAnalyze(has_session) ==
    /\ pc = "fn"
    /\ LET r == analyze_java_code(code_content, TRUE, FnName, has_session, uploaded_files)
       IN /\ metrics_call' =
                [ made |-> TRUE, code |-> code_content, has_session |-> has_session,
                  files |-> uploaded_files, has_path |-> TRUE, repo_dir |-> repo_dir, file_path |-> FnName,
                  result |-> r ]
          /\ pc' = IF r.returns THEN "fn" ELSE "hung"
    /\ UNCHANGED << threads, uploaded_files, repo_dir, all_smells, run_cache, button_shown,
                    method_hashes, clicked, selected_file, code_content, project_stats,
                    loop_i, acc, renders, stats_call, detect_call, last_run, prev_run >>

\* the project-wide run of the smells tab from here on: stats, the loop over
\* the files, and the smells of the selected file
CallPipeline ==
    /\ pc = "fn"
    /\ uploaded_files # <<>>
    /\ clicked' = TRUE
    /\ pc' = "stats"
    /\ UNCHANGED << threads, uploaded_files, repo_dir, all_smells, run_cache, button_shown,
                    method_hashes, selected_file, code_content, project_stats, loop_i,
                    acc, renders, stats_call, detect_call, metrics_call, last_run,
                    prev_run >>

NextFn ==
    \/ CallStats
    \/ \E has_context \in BOOLEAN : CallDetect(has_context)
    \/ \E has_session \in BOOLEAN : CallAnalyze(has_session)
    \/ CallPipeline
    \/ ComputeStats
    \/ AnalyzeFile
    \/ StoreAll
    \/ SelectedFileSmells

SpecFn == InitFn /\ [][NextFn]_vars


(***************************************************************************)
(* Two sessions of the application in one server process.  Each runs its   *)
(* script in a thread of its own, and MethodSmellAgent._method_hashes is   *)
(* an attribute of the class, shared by the threads.  The interpreter may  *)
(* switch threads between any two statements: the membership test of line  *)
(* 329 and the report or the store that follows it (lines 330-339) are     *)
(* steps of their own, and nothing in the code holds a lock across them.   *)
(* The attribute is taken to exist already (lines 327-328 are not a step). *)
(***************************************************************************)
ThreadTexts == {t \in MethodTexts : t.parse = "ok"}

\* a call of MethodSmellAgent.detect(code, file_name) at its first match
NewThread(code, file_name) ==
    [ code |-> code, file_name |-> file_name,
      k |-> 1,                 \* the match of method_pattern the loop is at
      at |-> IF code.methods = <<>> THEN "done" ELSE "check",
      known |-> FALSE,         \* what the test of line 329 gave
      reports |-> <<>> ]       \* the 'Duplicated Code' reports appended so far

InitThreads ==
    /\ \E c1 \in ThreadTexts, c2 \in ThreadTexts :
          threads = << NewThread(c1, NameOf(1)), NewThread(c2, NameOf(2)) >>
    /\ uploaded_files = <<>>
    /\ repo_dir = NoRepoDir
    /\ all_smells = NoSmells
    /\ run_cache = {}
    /\ button_shown = FALSE
    /\ method_hashes = {}
    /\ pc = "threads"
    /\ clicked = FALSE
    /\ selected_file = 0
    /\ code_content = EmptyText
    /\ project_stats = NoStats
    /\ loop_i = 0
    /\ acc = <<>>
    /\ renders = 0
    /\ stats_call = NoStatsCall
    /\ detect_call = NoDetectCall
    /\ metrics_call = NoMetricsCall
    /\ last_run = NoRun
    /\ prev_run = NoRun

\* the body hashed for the match thread t is at
ThreadBody(th) == MethodBody(th.code, th.code.methods[th.k])

\* line 329: if method_hash in MethodSmellAgent._method_hashes
CheckHash(t) ==
    /\ pc = "threads"
    /\ threads[t].at = "check"
    /\ threads' = [ threads EXCEPT
                      ![t].known = HashKnown(method_hashes, ThreadBody(threads[t])),
                      ![t].at = "act" ]
    /\ UNCHANGED << uploaded_files, repo_dir, all_smells, run_cache, button_shown,
                    method_hashes, pc, clicked, selected_file, code_content,
                    project_stats, loop_i, acc, renders, stats_call, detect_call,
                    metrics_call, last_run, prev_run >>

\* lines 330-339: the report when the test gave True, else the store
\* _method_hashes[method_hash] = mname; then the next match
ReportOrInsert(t) ==
    /\ pc = "threads"
    /\ threads[t].at = "act"
    /\ LET th == threads[t]
           mname == th.code.methods[th.k].name
           mbody == ThreadBody(th)
           dup == SmellReport(th.file_name, mname, MethodCategory, "Duplicated Code",
                              One, <<"duplicated with">> \o HashOwner(method_hashes, mbody))
       IN /\ threads' = [ threads EXCEPT
                            ![t].reports = IF th.known THEN @ \o <<dup>> ELSE @,
                            ![t].k = @ + 1,
                            ![t].at = IF th.k < Len(th.code.methods)
                                      THEN "check" ELSE "done" ]
          /\ method_hashes' =
                IF th.known THEN method_hashes
                ELSE {e \in method_hashes : e[1] # mbody} \cup {<<mbody, mname>>}
    /\ UNCHANGED << uploaded_files, repo_dir, all_smells, run_cache, button_shown,
                    pc, clicked, selected_file, code_content, project_stats, loop_i,
                    acc, renders, stats_call, detect_call, metrics_call, last_run,
                    prev_run >>

NextThreads ==
    \/ \E t \in {1, 2} : CheckHash(t)
    \/ \E t \in {1, 2} : ReportOrInsert(t)

SpecThreads == InitThreads /\ [][NextThreads]_vars


(***************************************************************************)
(* Properties.                                                             *)
(***************************************************************************)
\* the reports of a list of smells that are about file f
ReportsFor(smells, f) == {smells[k] : k \in {j \in 1..Len(smells) : smells[j].File = f}}
\* the reports of a call that have the given type
OfType(reports, smell_type) ==
    {k \in 1..Len(reports) : reports[k].smell_type = smell_type}

\* C1. Idempotence: two project-wide runs of the smell pipeline in the same
\* process over the same corpus give the same smells (the same 'Duplicated
\* Code' reports among them).
C1_Idempotent ==
    (last_run.done /\ prev_run.done /\ last_run.files = prev_run.files)
        => last_run.smells = prev_run.smells
\* two completed project-wide runs over one corpus with methods in it
C1_TwoRuns ==
    /\ last_run.done /\ prev_run.done /\ last_run.files = prev_run.files
    /\ \E k \in 1..Len(last_run.smells) : last_run.smells[k].Type = "Duplicated Code"

\* the smells of the loop over the files of c from position k on
RECURSIVE LoopSmells(_, _, _)
LoopSmells(hashes, c, k) ==
    IF k > Len(c) THEN <<>>
    ELSE LET all_files == AllFiles(c)
             file_contents == FileContents(c)
             r == detect_code_smells(hashes, c[k].content, c[k].name, TRUE, all_files,
                                     file_contents,
                                     compute_project_stats(all_files, file_contents))
         IN r.smells \o LoopSmells(r.hashes, c, k + 1)

\* C2. Order independence: from fresh state, every processing order of the
\* files of a corpus gives each file the same set of reports.
C2_OrderIndependent ==
    (pc = "tab2" /\ clicked /\ stats_call.hashes_before = {})
        => \A c \in Orders(uploaded_files) : \A k \in 1..Len(c) :
               ReportsFor(acc, c[k].name) = ReportsFor(LoopSmells({}, c, 1), c[k].name)
\* a run from fresh state over two files has ended
C2_FreshRun ==
    pc = "tab2" /\ clicked /\ stats_call.hashes_before = {} /\ Len(uploaded_files) >= 2

\* C3. Strategy selection is total: analyze_java_code returns for every text,
\* with all ten metric groups; "_warnings" is in the result exactly when the
\* parse failed, and then the exception text is under "_debug".
C3_StrategyTotal ==
    metrics_call.made =>
        LET r == metrics_call.result
            failed == metrics_call.code.parse # "ok"
        IN /\ r.returns
           /\ GroupNames \subseteq r.keys
           /\ ("_warnings" \in r.keys) <=> failed
           /\ failed => ("_debug" \in r.keys /\ "javalang_exception" \in r.debug_keys)
\* analyze_java_code was called with a text the parse fails on
C3_ParseFailed == metrics_call.made /\ metrics_call.code.parse # "ok"

\* C4. Two-pass ordering: when detect_code_smells is called in a script run,
\* compute_project_stats has been called in that run over the whole corpus,
\* the call gets that result, and it gets the file_contents map with the
\* text of every file of the corpus.
C4_TwoPass ==
    detect_call.made =>
        /\ stats_call.made
        /\ stats_call.files = detect_call.files
        /\ detect_call.project_stats = stats_call.stats
        /\ Len(detect_call.file_contents) = Len(detect_call.files)
        /\ \A k \in 1..Len(detect_call.files) :
              /\ detect_call.file_contents[k].name = detect_call.files[k].name
              /\ detect_call.files[k].has_content
                   => detect_call.file_contents[k].code = detect_call.files[k].content
        /\ stats_call.stats =
              compute_project_stats([k \in 1..Len(detect_call.files) |->
                                        detect_call.files[k].name],
                                    detect_call.file_contents)
\* the loop is past its second file of a corpus of three uploaded files
C4_SecondCall ==
    /\ pc = "loop" /\ loop_i = 3 /\ Len(uploaded_files) = 3
    /\ detect_call.made /\ detect_call.file_name = uploaded_files[2].name
    /\ uploaded_files[2].has_content

\* C5. Every report of detect_code_smells has a confidence in [0, 1], with
\* project stats absent, with medians 0 and with medians above 0.
C5_ConfidenceRange ==
    \A k \in 1..Len(detect_call.reports) :
        /\ RatLeq(Whole(0), detect_call.reports[k].confidence)
        /\ RatLeq(detect_call.reports[k].confidence, One)
\* a Long Method report at confidence 1 from a call without project stats
C5_Clamped ==
    /\ detect_call.made /\ ~detect_call.project_stats.present
    /\ \E k \in OfType(detect_call.reports, "Long Method") :
          RatEq(detect_call.reports[k].confidence, One)

\* file k of the corpus declares the class that the import dep names: its
\* path is dep with slashes and ".java", below any source root
Declares(name, dep) ==
    LET target == DotsToSlashes(dep) \o <<".java">>
    IN name = target \/ EndsWith(name, <<"/">> \o target)
ImportEdges(fc) ==
    { e \in (1..Len(fc)) \X (1..Len(fc)) :
        \E dep \in fc[e[1]].code.imports : Declares(fc[e[2]].name, dep) }
\* b is reached from a in at most n steps along the edges
RECURSIVE Reaches(_, _, _, _)
Reaches(edges, a, b, n) ==
    n > 0 /\ \E e \in edges : e[1] = a /\ (e[2] = b \/ Reaches(edges, e[2], b, n - 1))
OnCycle(fc, k) == Reaches(ImportEdges(fc), k, k, Len(fc))
Acyclic(fc) == \A k \in 1..Len(fc) : ~OnCycle(fc, k)

C7_GodClass ==
    (/\ detect_call.made /\ ~detect_call.raised
     /\ detect_call.project_stats.present
     /\ ~RatIsZero(detect_call.project_stats.class_median)) =>
        LET code == detect_call.code
            median == detect_call.project_stats.class_median
            loc == Whole(Loc(code))
        IN \A c \in Range(code.classes) :
              (/\ RatLess(RatMul(Whole(2), median), loc)
               /\ c.n_methods > 10 /\ c.n_fields > 10)
                 => \E k \in OfType(detect_call.reports, "God Class") :
                       /\ detect_call.reports[k].location = c.name
                       /\ RatEq(detect_call.reports[k].confidence,
                                Min1(RatDiv(RatSub(loc, median), median)))
\* the call was for a text of 300 lines with a class of 15 methods and 12
\* fields, at class median 100
C7_Example ==
    /\ detect_call.made /\ Loc(detect_call.code) = 300
    /\ detect_call.project_stats = Stats(Whole(100), Whole(40))
    /\ \E c \in Range(detect_call.code.classes) : c.n_methods = 15 /\ c.n_fields = 12

\* the body of a method from its "{" to before the "}" that matches it
MatchedBody(code, m) ==
    SubSeq(code.chars, m.open, BraceScan(code.chars, m.open, 1) - 1)
\* the line counts a reader may give that body: the lines between the
\* braces, those with the line of "{", those with the line of "}" as well
BodyLocs(code, m) ==
    LET n == LineCount(MatchedBody(code, m)) IN {n - 1, n, n + 1}

\* C8. Long Method: a method is reported as 'Long Method' exactly when the
\* LOC of its body is above the threshold (1.5 x method median, 50 when the
\* median is 0 or there are no stats), with confidence
\* min(1.0, (LOC - threshold) / threshold + 0.5).
C8_LongMethod ==
    (detect_call.made /\ ~detect_call.raised) =>
        LET code == detect_call.code
            threshold == LongMethodThreshold(detect_call.project_stats)
        IN \A m \in Range(code.methods) :
              LET over == {n \in BodyLocs(code, m) : RatLess(threshold, Whole(n))}
                  hits == {k \in OfType(detect_call.reports, "Long Method") :
                              detect_call.reports[k].location = m.name}
              IN /\ over = BodyLocs(code, m) => hits # {}
                 /\ hits # {} => over # {}
                 /\ \A k \in hits : \E n \in over :
                       RatEq(detect_call.reports[k].confidence,
                             Min1(RatAdd(RatDiv(RatSub(Whole(n), threshold), threshold),
                                         Half)))
\* the call was for a text with a method of one line before a long one
C8_ShortBeforeLong ==
    /\ detect_call.made /\ Len(detect_call.code.methods) = 2
    /\ \E m \in Range(detect_call.code.methods) :
          LineCount(MatchedBody(detect_call.code, m)) <= 3
    /\ \E m \in Range(detect_call.code.methods) :
          LineCount(MatchedBody(detect_call.code, m)) > 50

\* C9. Public Field: every declaration "public <type> <name>;" in a class
\* body of the text gets a 'Public Field' report for <name> with confidence
\* 1.0, whether the parse of the text succeeds or fails.
C9_PublicField ==
    (detect_call.made /\ ~detect_call.raised) =>
        \A f \in Range(detect_call.code.pubfields) :
            \E k \in OfType(detect_call.reports, "Public Field") :
                /\ detect_call.reports[k].location = f.name
                /\ RatEq(detect_call.reports[k].confidence, One)
\* the call was for a text with a public field of an array or generic type
C9_ArrayField ==
    /\ detect_call.made
    /\ \E f \in Range(detect_call.code.pubfields) : ~f.word_type

\* every value of every group is 0
AllZero(groups) ==
    \A g \in DOMAIN groups : \A m \in DOMAIN groups[g] : RatIsZero(groups[g][m])

\* C10. Empty input: for the empty text, alone or in a corpus, every metric
\* of the ten groups is 0 and detect_code_smells reports nothing.
C10_EmptyInput ==
    /\ (metrics_call.made /\ Loc(metrics_call.code) = 0 /\ metrics_call.result.returns)
          => AllZero(metrics_call.result.groups)
    /\ (detect_call.made /\ Loc(detect_call.code) = 0) => detect_call.reports = <<>>
\* analyze_java_code was called for an empty file that another file names
C10_EmptyFileNamed ==
    /\ metrics_call.made /\ Loc(metrics_call.code) = 0 /\ metrics_call.has_session
    /\ Len(metrics_call.files) = 2

\* s is the beginning of t
IsPrefix(s, t) == Len(s) <= Len(t) /\ SubSeq(t, 1, Len(s)) = s

\* C11. Per-file failure isolation: a step of the project-wide loop analyses
\* the file the loop is at, whether or not the file before it raised, and
\* leaves the reports collected so far at the front of the list (a file
\* that raises adds nothing, a file that returns adds its reports); at the
\* end of the files the step stores the collected list as the result.
C11_FailureIsolation ==
    [][ pc = "loop" =>
          IF loop_i <= Len(uploaded_files)
          THEN /\ pc' = "loop" /\ loop_i' = loop_i + 1
               /\ detect_call'.made
               /\ detect_call'.file_name = uploaded_files[loop_i].name
               /\ IsPrefix(acc, acc')
               /\ acc' = IF detect_call'.raised THEN acc
                         ELSE acc \o detect_call'.smells
          ELSE /\ all_smells' = [ is_none |-> FALSE, smells |-> acc ]
               /\ last_run' = [ done |-> TRUE, files |-> uploaded_files, smells |-> acc ]
       ]_vars
\* a run is stored in which B.java raised after A.java had given reports,
\* and the list holds reports of A.java and of E.java
C11_RaisedInRun ==
    /\ last_run.done /\ last_run.files = uploaded_files
    /\ \E k \in 2..(Len(uploaded_files) - 1) :
          /\ CycleRaises(uploaded_files[k].name, FileContents(uploaded_files))
          /\ ReportsFor(last_run.smells, uploaded_files[k].name) = {}
          /\ \E i \in 1..(k - 1) : ReportsFor(last_run.smells, uploaded_files[i].name) # {}
          /\ \E j \in (k + 1)..Len(uploaded_files) :
                ReportsFor(last_run.smells, uploaded_files[j].name) # {}


\* the reports xs are among the reports ys
AllAmong(xs, ys) == Range(xs) \subseteq Range(ys)

\* C12. Detector failure containment: a call of detect_code_smells returns
\* (no exception leaves it), and what it returns holds the reports of the
\* method and field detectors for the file, whichever arguments were left
\* at None.
C12_Contained ==
    detect_call.made =>
      /\ ~detect_call.raised
      /\ AllAmong(MethodSmellAgent_detect(detect_call.hashes_before, detect_call.code,
                                          detect_call.file_name,
                                          detect_call.project_stats).reports,
                  detect_call.reports)
      /\ AllAmong(FieldSmellAgent_detect(detect_call.code, detect_call.file_name),
                  detect_call.reports)
\* the call with the defaults, for a text with a public field
C12_DefaultsCall ==
    /\ detect_call.made /\ ~detect_call.has_context
    /\ FieldSmellAgent_detect(detect_call.code, detect_call.file_name) # <<>>


\* the call has a report of the given type at the given location
Reported(call, smell_type, location) ==
    \E k \in 1..Len(call.reports) :
        call.reports[k].smell_type = smell_type /\ call.reports[k].location = location

\* C13. Zero medians: in a call that is passed project stats whose method
\* median is 0 the Long Method rule works with the threshold 50, and in a
\* call whose class median is 0 the class detector does not divide by it:
\* it goes through its rules for every class, so that a rule that does not
\* depend on the median (Temporary Field, for a class that extends another
\* and has fields) gives its reports.
C13_ZeroMedian ==
    (detect_call.made /\ detect_call.has_context /\ ~detect_call.raised
       /\ detect_call.project_stats.present) =>
      LET code == detect_call.code
          stats == detect_call.project_stats
      IN /\ RatIsZero(stats.method_median) =>
               \A k \in 1..Len(code.methods) :
                 (LineCount(MethodBody(code, code.methods[k])) > 50)
                   <=> Reported(detect_call, "Long Method", code.methods[k].name)
         /\ (RatIsZero(stats.class_median) /\ code.parse = "ok") =>
               \A k \in 1..Len(code.classes) :
                 LET c == code.classes[k]
                 IN (c.parent # NoParent /\ c.n_fields > 0 /\ ~c.null_body)
                      => Reported(detect_call, "Temporary Field", FieldName(c.name, 1))
\* the call for a parsed class with a parent and fields, class median 0
C13_ZeroClassMedian ==
    /\ detect_call.made /\ detect_call.has_context /\ ~detect_call.raised
    /\ detect_call.project_stats.present
    /\ RatIsZero(detect_call.project_stats.class_median)
    /\ detect_call.code.parse = "ok"
    /\ \E k \in 1..Len(detect_call.code.classes) :
          /\ detect_call.code.classes[k].parent # NoParent
          /\ detect_call.code.classes[k].n_fields > 0
          /\ ~detect_call.code.classes[k].null_body


\* the metric names of every category of a result
MetricNames(result) == [g \in DOMAIN result.groups |-> DOMAIN result.groups[g]]
\* what the call gives for the same text and arguments when the text parses
AstResult(call) ==
    analyze_java_code([call.code EXCEPT !.parse = "ok"], call.has_path, call.file_path,
                      call.has_session, call.files)

\* C14. Metric shape invariance: a result of analyze_java_code has the
\* categories and, in every category, the metric names that the AST
\* strategy gives for the text; the only keys the fallback adds are
\* '_warnings' and '_debug'.
C14_ShapeInvariant ==
    (metrics_call.made /\ metrics_call.result.returns) =>
      LET r == metrics_call.result
          ast == AstResult(metrics_call)
      IN /\ ast.keys = GroupNames
         /\ r.keys \ {"_warnings", "_debug"} = ast.keys
         /\ MetricNames(r) = MetricNames(ast)
         /\ (metrics_call.code.parse = "ok") => (r.keys = ast.keys)
\* a call that fell back to the patterns and got other values than the
\* AST strategy gives for the text
C14_FallbackResult ==
    /\ metrics_call.made /\ metrics_call.result.returns
    /\ metrics_call.code.parse # "ok"
    /\ metrics_call.result.groups # AstResult(metrics_call).groups
    /\ {"_warnings", "_debug"} \subseteq metrics_call.result.keys


\* the values of a result, over all categories
MetricValues(result) ==
    UNION { { result.groups[g][m] : m \in DOMAIN result.groups[g] } :
              g \in DOMAIN result.groups }

\* C15. Every value of the ten metric groups is a number >= 0, for every
\* text and under either strategy.
C15_NonNegative ==
    (metrics_call.made /\ metrics_call.result.returns) =>
      \A v \in MetricValues(metrics_call.result) : v[1] >= 0 /\ v[2] > 0
\* a result of the fallback for a text with lines, with a value that is
\* not a whole number
C15_FallbackValues ==
    /\ metrics_call.made /\ metrics_call.result.returns
    /\ metrics_call.code.parse # "ok"
    /\ metrics_call.result.groups.Structural.LOC[1] > 0
    /\ \E v \in MetricValues(metrics_call.result) : v[1] > 0 /\ v[2] > 1


\* the place of a detector in SmellAgent.detect, by the category of its reports
DetectorRank(category) ==
    CASE category = ClassCategory -> 1
      [] category = MethodCategory -> 2
      [] category = FieldCategory -> 3
      [] category = ArchitectureCategory -> 4
      [] category = MiscCategory -> 5
      [] category = DependencyCategory -> 6
      [] OTHER -> 0
\* the place of a file in the traversal (the first, for a name held twice)
FilePlace(files, name) ==
    LET at == {k \in 1..Len(files) : files[k].name = name}
    IN IF at = {} THEN 0 ELSE CHOOSE k \in at : \A j \in at : k <= j
\* the reports that name the file they were produced for ('Parallel
\* Inheritance Hierarchies' names another file than the one processed)
OwnFile(smells) ==
    SelectSeq(smells, LAMBDA d : d.Type # "Parallel Inheritance Hierarchies")
\* smells is in the order of the files and, within a file, of the detectors
InTraversalOrder(smells, files) ==
    LET own == OwnFile(smells)
    IN \A i, j \in 1..Len(own) :
         i < j =>
           /\ FilePlace(files, own[i].File) > 0
           /\ FilePlace(files, own[i].File) <= FilePlace(files, own[j].File)
           /\ (own[i].File = own[j].File)
                 => DetectorRank(own[i].Category) <= DetectorRank(own[j].Category)
           /\ DetectorRank(own[i].Category) > 0

\* C16. Report ordering: the list the project-wide run collects, and the
\* list it stores, is in file traversal order and within one file in the
\* order Class, Method, Field, Architecture, Misc, Dependency of the
\* detectors.
C16_ReportOrder ==
    /\ (pc = "loop") => InTraversalOrder(acc, uploaded_files)
    /\ last_run.done => InTraversalOrder(last_run.smells, last_run.files)
    /\ (detect_call.made /\ ~detect_call.raised) =>
          \A i, j \in 1..Len(detect_call.smells) :
            i < j => DetectorRank(detect_call.smells[i].Category)
                       <= DetectorRank(detect_call.smells[j].Category)
\* a stored list with reports of two files, one of them with reports of
\* two detectors
C16_TwoFilesTwoDetectors ==
    /\ last_run.done
    /\ \E i, j \in 1..Len(last_run.smells) :
          last_run.smells[i].File # last_run.smells[j].File
    /\ \E i, j \in 1..Len(last_run.smells) :
          /\ last_run.smells[i].File = last_run.smells[j].File
          /\ last_run.smells[i].Category # last_run.smells[j].Category


\* the braces of a text, in order
Braces(t) == Repeat("{", t.lead_opens) \o SelectSeq(t.chars, LAMBDA c : c \in {"{", "}"})
\* every "}" closes a "{" before it and no "{" is left open
Balanced(t) ==
    LET bs == Braces(t)
        Opens(k) == Cardinality({j \in 1..k : bs[j] = "{"})
    IN /\ \A k \in 1..Len(bs) : 2 * Opens(k) >= k
       /\ 2 * Opens(Len(bs)) = Len(bs)
\* the bodies the call has entered into _method_hashes, with their methods
NewBodies == method_hashes \ detect_call.hashes_before

\* C17. Brace matching: for a text with balanced braces, the body the
\* method detector extracts for a signature match runs from the opening
\* brace the match ends at to the closing brace that matches it, and so
\* holds nothing of the methods after it.
C17_BraceMatching ==
    (detect_call.made /\ Balanced(detect_call.code)) =>
      \A e \in NewBodies :
        \E k \in 1..Len(detect_call.code.methods) :
          /\ detect_call.code.methods[k].name = e[2]
          /\ e[1] = MatchedBody(detect_call.code, detect_call.code.methods[k])
\* the call extracted the bodies of two methods of a balanced text
C17_TwoBodies ==
    /\ detect_call.made /\ Balanced(detect_call.code)
    /\ Len(detect_call.code.methods) = 2
    /\ Cardinality(NewBodies) = 2

\* C18: on a text with unbalanced braces the scan of a method whose "{" is
\* never closed ends without an exception at the end of the text, having
\* read some characters and none past the end, and the body it returns is
\* the text from that "{" to the end of the text.
\* the "{" at position p is never closed
OpenAt(chars, p) ==
    \A q \in p..Len(chars) :
        Cardinality({j \in p..q : chars[j] = "{"})
          > Cardinality({j \in p..q : chars[j] = "}"})
C18_UnbalancedScan ==
    (detect_call.made /\ ~detect_call.raised /\ ~Balanced(detect_call.code)) =>
      LET code == detect_call.code
      IN \A k \in 1..Len(code.methods) :
           LET open == code.methods[k].open
               i == BraceScan(code.chars, open - 1, 1)
           IN OpenAt(code.chars, open) =>
                /\ i > open - 1 /\ i <= Len(code.chars)
                /\ \A e \in NewBodies :
                     e[2] = code.methods[k].name =>
                       e[1] = SubSeq(code.chars, open, Len(code.chars))
\* the call was for a text that ends inside a method, and it stored a body
\* for that method
C18_UnclosedMethod ==
    /\ detect_call.made /\ ~detect_call.raised /\ ~Balanced(detect_call.code)
    /\ \E k \in 1..Len(detect_call.code.methods) :
         /\ OpenAt(detect_call.code.chars, detect_call.code.methods[k].open)
         /\ \E e \in NewBodies : e[2] = detect_call.code.methods[k].name
\* the scan part of C18 alone: it holds
C18_ScanBounds ==
    (detect_call.made /\ ~Balanced(detect_call.code)) =>
      \A m \in Range(detect_call.code.methods) :
        LET i == BraceScan(detect_call.code.chars, m.open - 1, 1)
        IN i > m.open - 1 /\ i <= Len(detect_call.code.chars)

\* C19: in a call of the method detector on a balanced text that starts with
\* an empty hash table, the 'Duplicated Code' reports are as many as the
\* methods processed less the distinct method bodies: a method is reported
\* exactly when a method with the same body came before it.
DuplicateReports(call) ==
    SelectSeq(call.reports, LAMBDA r : r.smell_type = "Duplicated Code")
\* the methods before the k-th with the body of the k-th
EarlierTwins(code, k) ==
    {j \in 1..(k - 1) :
        MatchedBody(code, code.methods[j]) = MatchedBody(code, code.methods[k])}
C19_DuplicateCount ==
    (/\ detect_call.made /\ ~detect_call.raised
     /\ detect_call.hashes_before = {} /\ Balanced(detect_call.code)) =>
      LET code == detect_call.code
          bodies == {MatchedBody(code, m) : m \in Range(code.methods)}
      IN /\ Len(DuplicateReports(detect_call))
              = Len(code.methods) - Cardinality(bodies)
         /\ \A k \in 1..Len(code.methods) :
              Reported(detect_call, "Duplicated Code", code.methods[k].name)
                <=> EarlierTwins(code, k) # {}
\* the call started with an empty table on a text whose second method has
\* the body of its first
C19_TwinMethods ==
    /\ detect_call.made /\ ~detect_call.raised
    /\ detect_call.hashes_before = {} /\ Balanced(detect_call.code)
    /\ Len(detect_call.code.methods) = 2
    /\ EarlierTwins(detect_call.code, 2) = {1}

\* C20: when two calls of the method detector interleave on the shared hash
\* table and each processes one method, the two with the same body, then
\* once both calls are over exactly one of the two methods has been
\* reported as 'Duplicated Code'.
\* both calls are over; each had one method, and the two bodies are equal
TwinThreadsDone ==
    /\ Len(threads) = 2
    /\ \A t \in 1..2 : threads[t].at = "done" /\ Len(threads[t].code.methods) = 1
    /\ MethodBody(threads[1].code, threads[1].code.methods[1])
         = MethodBody(threads[2].code, threads[2].code.methods[1])
C20_ExactlyOneReported ==
    TwinThreadsDone => Len(threads[1].reports) + Len(threads[2].reports) = 1
\* both calls are over for two methods with the same body, and the method
\* of the first call was reported
C20_TwinsProcessed ==
    TwinThreadsDone /\ Len(threads[1].reports) = 1

\* C21: on the regex path the computation of the OO metrics ends for every
\* text: a call of analyze_java_code on a text the parse fails on returns,
\* also when the extends relation of the text is cyclic.
\* the extends relation matched in the text leads from a class back to it
CyclicExtends(code) ==
    \E k \in 1..Len(code.class_matches) :
        get_dit(code.class_matches, code.class_matches[k].name, {}).diverges
C21_DitTerminates ==
    (metrics_call.made /\ metrics_call.code.parse # "ok") => metrics_call.result.returns
\* analyze_java_code was called on a text the parse fails on, in which two
\* classes extend each other
C21_CyclicExtendsCall ==
    /\ metrics_call.made /\ metrics_call.code.parse # "ok"
    /\ CyclicExtends(metrics_call.code)

\* C22: the OO design and cohesion metrics do not depend on the strategy:
\* for a text whose classes have n methods, all of them matched by the
\* patterns, a result of analyze_java_code has WMC = n, and its cohesion
\* group is the one the patterns give for the text.
\* the methods the parse tree has in the type declarations of the text
MethodsInClasses(code) == code.ast.type_methods
\* the patterns find every method of the classes
PatternsFindAll(code) ==
    /\ code.class_matches # <<>>
    /\ SumSeq([k \in 1..Len(code.class_matches) |-> code.class_matches[k].body_methods])
         = MethodsInClasses(code)
C22_StrategiesAgree ==
    (/\ metrics_call.made /\ metrics_call.result.returns
     /\ PatternsFindAll(metrics_call.code)) =>
      LET g == metrics_call.result.groups
      IN /\ g.ObjectOriented.WMC = Whole(MethodsInClasses(metrics_call.code))
         /\ g.Cohesion = analyze_cohesion_metrics(metrics_call.code, TRUE)
\* a call on a text that parses, with two methods in its class
C22_ParsedWithMethods ==
    /\ metrics_call.made /\ metrics_call.result.returns
    /\ PatternsFindAll(metrics_call.code)
    /\ metrics_call.code.parse = "ok"
    /\ MethodsInClasses(metrics_call.code) = 2
\* the regex half of C22 alone: it holds
C22_RegexWmc ==
    (/\ metrics_call.made /\ metrics_call.result.returns
     /\ PatternsFindAll(metrics_call.code) /\ metrics_call.code.parse # "ok") =>
      metrics_call.result.groups.ObjectOriented.WMC
        = Whole(MethodsInClasses(metrics_call.code))

\* C23: on the regex path, for every class of a balanced text, each
\* unordered pair of methods of the class counts once: 1 to TCC when the
\* sets of fields the two methods use intersect, 1 to LCOM when both sets
\* are non-empty and disjoint, nothing when one of them is empty; so LCOM +
\* TCC of a class with n methods is at most n(n-1)/2, and the values of the
\* file are the sums over its classes.
\* the position of the "}" that closes class match c
ClassClose(code, c) == BraceScan(code.chars, c.open, 1)
\* the methods of class c and the fields declared in it
OwnMethods(code, c) ==
    SelectSeq(code.methods, LAMBDA m : m.open > c.open /\ m.open < ClassClose(code, c))
OwnFields(code, c) ==
    SelectSeq(code.field_decls, LAMBDA d : d.at >= c.open /\ d.at < ClassClose(code, c))
\* per method of c, the fields of c that the body of the method mentions
OwnUsage(code, c) ==
    LET ms == OwnMethods(code, c)
        fs == OwnFields(code, c)
    IN [k \in 1..Len(ms) |->
          {fs[j].name : j \in {n \in 1..Len(fs) :
              \E q \in 1..Len(MatchedBody(code, ms[k])) :
                  MatchedBody(code, ms[k])[q] = fs[n].name}}]
C23_PairCounts ==
    (/\ metrics_call.made /\ metrics_call.result.returns
     /\ metrics_call.code.parse # "ok" /\ Balanced(metrics_call.code)) =>
      LET code == metrics_call.code
          cs == code.class_matches
          g == metrics_call.result.groups.Cohesion
          own == [k \in 1..Len(cs) |-> Cohesion(OwnUsage(code, cs[k]))]
      IN /\ g.LCOM = Whole(SumSeq([k \in 1..Len(cs) |-> own[k].lcom]))
         /\ g.TCC = Whole(SumSeq([k \in 1..Len(cs) |-> own[k].tcc]))
         /\ \A k \in 1..Len(cs) :
              LET n == Len(OwnMethods(code, cs[k]))
                  got == Cohesion(method_field_usage(code, cs[k]))
              IN 2 * (got.lcom + got.tcc) <= n * (n - 1)
\* a call on the regex path for a balanced text with a class of three
\* methods, one of which uses no field
C23_ThreeMethods ==
    /\ metrics_call.made /\ metrics_call.result.returns
    /\ metrics_call.code.parse # "ok" /\ Balanced(metrics_call.code)
    /\ \E c \in Range(metrics_call.code.class_matches) :
         /\ Len(OwnUsage(metrics_call.code, c)) = 3
         /\ \E k \in 1..3 : OwnUsage(metrics_call.code, c)[k] = {}
         /\ \E k \in 1..3 : OwnUsage(metrics_call.code, c)[k] # {}

\* C24: a method whose parameters are each written "type name" is reported
\* as 'Long Parameter List' exactly when it declares more than 5 parameters.
C24_LongParameterList ==
    (detect_call.made /\ ~detect_call.raised) =>
      \A m \in Range(detect_call.code.methods) :
        (m.words = 2 * m.params) =>
          (Reported(detect_call, "Long Parameter List", m.name) <=> m.params > 5)
\* the call was for a text with a method of three parameters
C24_ThreeParameters ==
    /\ detect_call.made /\ ~detect_call.raised
    /\ \E m \in Range(detect_call.code.methods) : m.params = 3 /\ m.words = 6

\* C25: a call of detect_code_smells for file F gives a 'Cyclic Dependency'
\* report only if F lies on an import cycle of the corpus, and at most one;
\* a file that only reaches a cycle gets none.  The corpora are those whose
\* imports the code resolves to the files that declare them.
ResolvesAsDeclared(fc) ==
    \A k \in 1..Len(fc) : \A dep \in fc[k].code.imports :
        LET d == DepFile(ImportGraph(fc), dep)
        IN IF d = 0 THEN \A j \in 1..Len(fc) : ~Declares(fc[j].name, dep)
           ELSE Declares(fc[d].name, dep)
\* the file the call is for, as positions of file_contents
CallFileAt(call) ==
    {k \in 1..Len(call.file_contents) : call.file_contents[k].name = call.file_name}
C25_OnlyOnCycle ==
    (/\ detect_call.made /\ ~detect_call.raised
     /\ ResolvesAsDeclared(detect_call.file_contents)) =>
      LET n == Cardinality(OfType(detect_call.reports, "Cyclic Dependency"))
      IN /\ n <= 1
         /\ n = 1 => \E k \in CallFileAt(detect_call) :
                        OnCycle(detect_call.file_contents, k)
\* the call was for a file that is on no cycle and imports a file that is
C25_ReachesCycle ==
    /\ detect_call.made /\ ~detect_call.raised
    /\ ResolvesAsDeclared(detect_call.file_contents)
    /\ \E k \in CallFileAt(detect_call) :
         /\ ~OnCycle(detect_call.file_contents, k)
         /\ \E j \in 1..Len(detect_call.file_contents) :
              /\ <<k, j>> \in ImportEdges(detect_call.file_contents)
              /\ OnCycle(detect_call.file_contents, j)

\* C26: the class rules of a class use its own method list and field list,
\* with or without an extends clause: in a call with project stats for a
\* text that parses, a class is reported as 'Data Class' exactly when it
\* has more than 3 fields and at most 2 methods, and as 'Lazy Class'
\* exactly when the text is shorter than 0.3 x class median and the class
\* has fewer than 2 methods.
C26_OwnMembers ==
    (/\ detect_call.made /\ ~detect_call.raised /\ detect_call.code.parse = "ok"
     /\ detect_call.project_stats.present
     /\ ~RatIsZero(detect_call.project_stats.class_median)) =>
      LET code == detect_call.code
          lazy_size == RatLess(Whole(Loc(code)),
                               RatMul(detect_call.project_stats.class_median, <<3, 10>>))
      IN \A c \in Range(code.classes) :
           /\ Reported(detect_call, "Data Class", c.name)
                <=> (c.n_fields > 3 /\ c.n_methods <= 2)
           /\ Reported(detect_call, "Lazy Class", c.name)
                <=> (lazy_size /\ c.n_methods < 2)
\* the call was for a text that parses, with a class of 4 fields and 1
\* method that has no parent class
C26_PlainDataClass ==
    /\ detect_call.made /\ ~detect_call.raised /\ detect_call.code.parse = "ok"
    /\ detect_call.project_stats.present
    /\ ~RatIsZero(detect_call.project_stats.class_median)
    /\ \E c \in Range(detect_call.code.classes) :
         c.parent = NoParent /\ c.n_fields = 4 /\ c.n_methods = 1
\* the same for the classes of a text whose classes all extend a class
C26_WithParent ==
    (/\ detect_call.made /\ ~detect_call.raised /\ detect_call.code.parse = "ok"
     /\ detect_call.project_stats.present
     /\ ~RatIsZero(detect_call.project_stats.class_median)
     /\ \A c \in Range(detect_call.code.classes) : c.parent # NoParent) =>
      \A c \in Range(detect_call.code.classes) :
        /\ Reported(detect_call, "Data Class", c.name)
             <=> (c.n_fields > 3 /\ c.n_methods <= 2)
        /\ Reported(detect_call, "Lazy Class", c.name)
             <=> (/\ RatLess(Whole(Loc(detect_call.code)),
                             RatMul(detect_call.project_stats.class_median, <<3, 10>>))
                  /\ c.n_methods < 2)

\* C27: every report of a call of detect_code_smells for file F names F as
\* its file: the reports and the dictionaries made of them.
C27_OwnFileName ==
    (detect_call.made /\ ~detect_call.raised) =>
      /\ \A k \in 1..Len(detect_call.reports) :
           detect_call.reports[k].file_name = detect_call.file_name
      /\ \A k \in 1..Len(detect_call.smells) :
           detect_call.smells[k].File = detect_call.file_name
\* the call was for a file with a subclass, with project stats, in a corpus
\* where another file has a subclass of a parent named alike
C27_SimilarParents ==
    /\ detect_call.made /\ ~detect_call.raised /\ detect_call.project_stats.present
    /\ \E c \in Range(detect_call.code.classes) :
         \E k \in 1..Len(detect_call.file_contents) :
           /\ detect_call.file_contents[k].name # detect_call.file_name
           /\ \E c2 \in Range(detect_call.file_contents[k].code.classes) :
                /\ c.parent # NoParent /\ c2.parent # NoParent /\ c2.parent # c.parent
                /\ StartsWith(Lower(c2.parent), Prefix(Lower(c.parent), 3))
\* the reports of the rules other than 'Parallel Inheritance Hierarchies'
\* name the file of the call
C27_OtherRules ==
    (detect_call.made /\ ~detect_call.raised) =>
      \A k \in 1..Len(detect_call.reports) :
        detect_call.reports[k].smell_type # "Parallel Inheritance Hierarchies"
          => detect_call.reports[k].file_name = detect_call.file_name

\* C28: the dependency results of one corpus agree with each other: for
\* distinct files A and B, B is in outgoing(A) exactly when A is in
\* incoming(B); no file is in its own incoming or outgoing list; Fan-In and
\* Afferent Coupling (Ca) of the analysed file are the size of its incoming
\* list.
\* the analysis of metrics_call was made with a repository directory
InRepo == metrics_call.repo_dir.present
\* what the analysis of file k of the corpus of metrics_call gets from
\* DependencyAgent.analyze
DepOf(k) ==
    LET files == metrics_call.files
        rd == ReadFile(files[k], metrics_call.repo_dir)
    IN DependencyAgent_analyze(rd.path, rd.code, AllFiles(files), FileContents(files))
DistinctNames(files) ==
    \A i, j \in 1..Len(files) : i # j => files[i].name # files[j].name
DependencyConsistent ==
    LET files == metrics_call.files
        n == Len(files)
    IN /\ \A i, j \in 1..n :
            i # j => (files[j].name \in DepOf(i).outgoing <=> files[i].name \in DepOf(j).incoming)
       /\ \A i \in 1..n : files[i].name \notin DepOf(i).incoming \cup DepOf(i).outgoing
       /\ \E k \in 1..n :
            /\ ReadFile(files[k], metrics_call.repo_dir).path = metrics_call.file_path
            /\ metrics_call.result.groups.Coupling.FanIn = Whole(Cardinality(DepOf(k).incoming))
            /\ metrics_call.result.groups.Coupling.Ca = Whole(Cardinality(DepOf(k).incoming))
C28_DependencyConsistent ==
    (metrics_call.made /\ metrics_call.has_session /\ metrics_call.result.returns
       /\ DistinctNames(metrics_call.files))
      => DependencyConsistent
\* the metrics of a file of a cloned repository were computed, and the text
\* of the file names its own class
C28_ClonedFileAnalysed ==
    /\ metrics_call.made /\ metrics_call.has_session /\ metrics_call.result.returns
    /\ InRepo
    /\ Len(metrics_call.files) = 2
    /\ \A k \in 1..2 : ~metrics_call.files[k].has_content
    /\ \E k \in 1..2 : BaseName(metrics_call.files[k].name) \in metrics_call.code.mentions
\* the results agree for a corpus of uploaded files analysed from the upload
C28_UploadedConsistent ==
    (metrics_call.made /\ metrics_call.has_session /\ metrics_call.result.returns
       /\ DistinctNames(metrics_call.files) /\ ~InRepo
       /\ \A k \in 1..Len(metrics_call.files) : metrics_call.files[k].has_content)
      => DependencyConsistent

\* C29: cached results follow the corpus: when a script run shows the
\* metrics of the selected file, the cached entry it shows holds the
\* analysis of the text read for that file with the files uploaded now; when
\* it shows the stored project-wide smell list, that list was computed from
\* the files uploaded now.
ShownEntries ==
    IF selected_file = 0 THEN {}
    ELSE {e \in run_cache : e.key = uploaded_files[selected_file].name}
C29_CacheFollowsCorpus ==
    /\ pc = "stats" =>
         \A e \in ShownEntries :
           LET rd == ReadSelected(uploaded_files[selected_file])
           IN /\ e.code = code_content
              /\ e.result = analyze_java_code(rd.code, TRUE, rd.path, TRUE, uploaded_files)
    /\ (pc = "tab2" /\ ~all_smells.is_none) =>
         (last_run.done /\ last_run.files = uploaded_files)
\* a script run shows the metrics of a file whose text is not the text the
\* cached entry of that name was computed from: the file was uploaded anew
C29_ReplacedFileShown ==
    /\ pc = "stats"
    /\ renders >= 2
    /\ \E e \in ShownEntries : e.code # code_content
\* a script run shows a stored smell list while other files are uploaded
\* than those the list was computed from
C29_StoredListShown ==
    /\ pc = "tab2" /\ ~all_smells.is_none
    /\ last_run.done /\ last_run.files # uploaded_files
\* without a new upload in between, what is shown is the analysis of the
\* text read for the selected file
C29_FirstAnalysis ==
    (pc = "stats" /\ metrics_call.made /\ metrics_call.files = uploaded_files
       /\ metrics_call.code = code_content /\ Cardinality(run_cache) = 1) =>
      \A e \in ShownEntries :
        e.result = analyze_java_code(code_content, TRUE,
                                     ReadSelected(uploaded_files[selected_file]).path,
                                     TRUE, uploaded_files)

\* C30: whatever way the files were acquired, the project statistics, the
\* smell detection and the analysis of the selected file work on the text of
\* each file: the text of the upload for an uploaded file, the text on disk
\* for a file of a cloned repository.
ActualContents(files) ==
    [k \in 1..Len(files) |-> [ name |-> files[k].name, code |-> files[k].content ]]
C30_ActualText ==
    /\ stats_call.made =>
         stats_call.stats = compute_project_stats(AllFiles(stats_call.files),
                                                  ActualContents(stats_call.files))
    /\ detect_call.made =>
         /\ detect_call.file_contents = ActualContents(detect_call.files)
         /\ \E k \in 1..Len(detect_call.files) :
              /\ detect_call.files[k].name = detect_call.file_name
              /\ detect_call.code = detect_call.files[k].content
    /\ (renders > 0 /\ pc \in {"idle", "stats", "loop", "tab2"} /\ selected_file # 0) =>
         code_content = uploaded_files[selected_file].content
\* the statistics of a cloned repository with a file that is not blank were
\* computed
C30_ClonedStats ==
    /\ stats_call.made
    /\ repo_dir.present
    /\ \E k \in 1..Len(stats_call.files) :
         /\ ~stats_call.files[k].has_content
         /\ ~IsBlank(stats_call.files[k].content)
\* a script run read the selected file of an upload made after a clone
C30_UploadAfterClone ==
    /\ renders > 0 /\ pc \in {"idle", "stats"} /\ selected_file # 0
    /\ repo_dir.present
    /\ uploaded_files[selected_file].has_content
    /\ ~IsBlank(uploaded_files[selected_file].content)
\* with no repository cloned in the session, every analysis of uploaded
\* files works on the uploaded text
C30_UploadOnly ==
    ~repo_dir.present => C30_ActualText

=============================================================================
